---- MODULE Spec2Model ----
(***************************************************************************)
(* A model of the oddsy prediction-market dashboard: the paginated         *)
(* fetchers and the order-book batching of oddsy_services/kalshi_client.py *)
(* and polymarket_client.py, the "Refresh Data" handler, the labels and    *)
(* the grouping of app.py, the price normalizers of                        *)
(* oddsy_services/market_transform.py and the statistics of                *)
(* oddsy_services/stats_service.py.                                        *)
(***************************************************************************)
EXTENDS Integers, Sequences, FiniteSets, TLC

VARIABLES
    \* --- one run of a paginated fetch function ---
    fetcher,        \* which fetch function is running
    max_pages,      \* its max_pages argument
    pc,             \* "loop" | "done" (returned) | "raised" (exception left the function)
    pages_fetched,  \* kalshi: pages_fetched; range loops: iterations begun
    offset,         \* offset-based fetchers: the offset of the next request
    cursor,         \* cursor-based fetchers: the cursor of the next request
    all_rows,       \* all_markets / all_trades / all_rows
    served,         \* history: the requests issued and what the endpoint answered
    \* --- the Streamlit session and its "Refresh Data" handler ---
    session_state,  \* st.session_state: key -> [by: the refresh that wrote it, val]
    refresh_no,     \* how many times "Refresh Data" was clicked
    last_refresh,   \* history: the platform choice of the last click and where it failed
    \* --- the normalizers of market_transform.py, applied to one record ---
    norm_in,        \* the input record
    norm_op,        \* "input" before, then the function that was applied
    norm_out,       \* what it returned
    \* --- one call of fetch_clob_books (its loop uses fetcher, pc, offset, served) ---
    books_token_ids,    \* its token_ids argument
    books_chunk_size,   \* its chunk_size argument
    books_out           \* its local out, the map it returns

fetchVars == <<fetcher, max_pages, pc, pages_fetched, offset, cursor, all_rows, served>>
refreshVars == <<session_state, refresh_no, last_refresh>>

normVars == <<norm_in, norm_op, norm_out>>

booksVars == <<books_token_ids, books_chunk_size, books_out>>

vars == <<fetchVars, refreshVars, normVars, booksVars>>

\* Python's None.
NoneV == "None"

(***************************************************************************)
(* Bounds of the model.                                                    *)
(***************************************************************************)
\* Largest max_pages argument tried.
MaxPagesBound == 3
\* Items per full page (the limit / page_limit argument).
PageLimit == 2
\* now - 7 days, in seconds, of the run of fetch_polymarket_trades_last_7d.
Cutoff == 2
\* Clicks of "Refresh Data" in one session.
MaxRefreshes == 3
\* Outcomes (and prices, and token ids) of one Gamma record.
MaxOutcomes == 3

(***************************************************************************)
(* The endpoints (the environment).                                        *)
(***************************************************************************)
RECURSIVE SeqsUpTo(_, _)
SeqsUpTo(S, n) ==
    IF n = 0 THEN {<<>>}
    ELSE LET shorter == SeqsUpTo(S, n - 1)
         IN  shorter \cup {Append(s, x) : s \in {t \in shorter : Len(t) = n - 1}, x \in S}

\* Market / trade records of the Kalshi and Gamma listings.
Items == {[id |-> "a"], [id |-> "b"]}
\* Trades of the Polymarket data API: has_ts is whether the record carries a
\* "timestamp" field at all.
Timestamps == (Cutoff - 1)..(Cutoff + 1)
PmTrades == {[has_ts |-> TRUE, ts |-> t] : t \in Timestamps} \cup {[has_ts |-> FALSE, ts |-> 0]}

\* data.get("cursor"): absent, empty, or an opaque token.
CursorValues == {NoneV, "", "tok"}

Error == [kind |-> "error"]
\* A Kalshi response body: {"markets"/"trades": [...], "cursor": ...}.
KalshiResponses ==
    {[kind |-> "ok", items |-> p, cursor |-> c] : p \in SeqsUpTo(Items, PageLimit), c \in CursorValues}
        \cup {Error}
\* A Gamma response body: a JSON list of rows.
GammaResponses ==
    {[kind |-> "ok", items |-> p] : p \in SeqsUpTo(Items, PageLimit)} \cup {Error}
\* A data-API response body: a JSON list of trades, or some other JSON value.
PmTradeResponses ==
    {[kind |-> "ok", items |-> p] : p \in SeqsUpTo(PmTrades, PageLimit)}
        \cup {[kind |-> "notlist"], Error}

Fetchers == {"fetch_kalshi_markets", "fetch_kalshi_trades_last_week",
             "fetch_gamma_markets", "fetch_polymarket_trades_last_7d"}

(***************************************************************************)
(* Helpers of the fetch loops.                                             *)
(***************************************************************************)
\* Python truthiness of a cursor: None and "" are falsy.
Truthy(c) == c # NoneV /\ c # ""

PageCapReachedOffByOne(pf, mp) == pf >= mp
\* kalshi: "if pages_fetched > max_pages: break" (after the increment).
PageCapReached(pf, mp) == pf > mp

\* "for _ in range(max_pages)": is there another iteration after `done` of them?
RangeHasNext(done, mp) == done < mp

KeepRecentStrict(batch, cutoff) == SelectSeq(batch, LAMBDA t : t.ts > cutoff)
\* dfb[dfb["timestamp"].astype(int) >= cutoff]
KeepRecent(batch, cutoff) == SelectSeq(batch, LAMBDA t : t.ts >= cutoff)

\* int(dfb["timestamp"].min())
OldestTs(batch) ==
    CHOOSE m \in {batch[i].ts : i \in DOMAIN batch} :
        \A i \in DOMAIN batch : m <= batch[i].ts

(***************************************************************************)
(* fetch_kalshi_markets: one iteration of its while loop.                  *)
(***************************************************************************)
KalshiMarketsStep ==
    /\ fetcher = "fetch_kalshi_markets"
    /\ pc = "loop"
    /\ pages_fetched' = pages_fetched + 1
    /\ UNCHANGED <<fetcher, max_pages, offset>>
    /\ IF PageCapReached(pages_fetched + 1, max_pages)
       THEN /\ pc' = "done"
            /\ UNCHANGED <<cursor, all_rows, served>>
       ELSE \E resp \in KalshiResponses :
            /\ served' = Append(served, [query |-> cursor, resp |-> resp])
            /\ IF resp.kind = "error"
               THEN \* kalshi_get raises; nothing catches it
                    /\ pc' = "raised"
                    /\ UNCHANGED <<cursor, all_rows>>
               ELSE IF resp.items = <<>>
               THEN /\ pc' = "done"
                    /\ UNCHANGED <<cursor, all_rows>>
               ELSE /\ all_rows' = all_rows \o resp.items
                    /\ cursor' = resp.cursor
                    /\ pc' = IF Truthy(resp.cursor) THEN "loop" ELSE "done"

(***************************************************************************)
(* fetch_kalshi_trades_last_week: one iteration of its while loop.         *)
(***************************************************************************)
KalshiTradesStep ==
    /\ fetcher = "fetch_kalshi_trades_last_week"
    /\ pc = "loop"
    /\ pages_fetched' = pages_fetched + 1
    /\ UNCHANGED <<fetcher, max_pages, offset>>
    /\ IF PageCapReached(pages_fetched + 1, max_pages)
       THEN /\ pc' = "done"
            /\ UNCHANGED <<cursor, all_rows, served>>
       ELSE \E resp \in KalshiResponses :
            /\ served' = Append(served, [query |-> cursor, resp |-> resp])
            /\ IF resp.kind = "error"
               THEN /\ pc' = "raised"
                    /\ UNCHANGED <<cursor, all_rows>>
               ELSE \* no test for an empty page here
                    /\ all_rows' = all_rows \o resp.items
                    /\ cursor' = resp.cursor
                    /\ pc' = IF Truthy(resp.cursor) THEN "loop" ELSE "done"

(***************************************************************************)
(* fetch_gamma_markets: one iteration of "for _ in range(max_pages)".      *)
(***************************************************************************)
GammaMarketsStep ==
    /\ fetcher = "fetch_gamma_markets"
    /\ pc = "loop"
    /\ UNCHANGED <<fetcher, max_pages, cursor>>
    /\ IF ~RangeHasNext(pages_fetched, max_pages)
       THEN /\ pc' = "done"
            /\ UNCHANGED <<pages_fetched, offset, all_rows, served>>
       ELSE \E resp \in GammaResponses :
            /\ pages_fetched' = pages_fetched + 1
            /\ served' = Append(served, [query |-> offset, resp |-> resp])
            /\ IF resp.kind = "error"
               THEN \* _get raises; nothing catches it
                    /\ pc' = "raised"
                    /\ UNCHANGED <<offset, all_rows>>
               ELSE IF resp.items = <<>>
               THEN /\ pc' = "done"
                    /\ UNCHANGED <<offset, all_rows>>
               ELSE /\ all_rows' = all_rows \o resp.items
                    /\ offset' = offset + PageLimit
                    /\ pc' = "loop"

(***************************************************************************)
(* fetch_polymarket_trades_last_7d: one iteration of its for loop.         *)
(***************************************************************************)
PmTradesStep ==
    /\ fetcher = "fetch_polymarket_trades_last_7d"
    /\ pc = "loop"
    /\ UNCHANGED <<fetcher, max_pages, cursor>>
    /\ IF ~RangeHasNext(pages_fetched, max_pages)
       THEN /\ pc' = "done"
            /\ UNCHANGED <<pages_fetched, offset, all_rows, served>>
       ELSE \E resp \in PmTradeResponses :
            /\ pages_fetched' = pages_fetched + 1
            /\ served' = Append(served, [query |-> offset, resp |-> resp])
            /\ IF resp.kind = "error"
               THEN \* r.raise_for_status() raises; nothing catches it
                    /\ pc' = "raised"
                    /\ UNCHANGED <<offset, all_rows>>
               ELSE IF resp.kind = "notlist" \/ resp.items = <<>>
               THEN /\ pc' = "done"
                    /\ UNCHANGED <<offset, all_rows>>
               ELSE IF \A i \in DOMAIN resp.items : ~resp.items[i].has_ts
               THEN \* "timestamp" not in dfb.columns
                    /\ pc' = "done"
                    /\ UNCHANGED <<offset, all_rows>>
               ELSE IF \E i \in DOMAIN resp.items : ~resp.items[i].has_ts
               THEN \* a NaN in the column: astype(int) raises
                    /\ pc' = "raised"
                    /\ UNCHANGED <<offset, all_rows>>
               ELSE /\ all_rows' = all_rows \o KeepRecent(resp.items, Cutoff)
                    /\ IF OldestTs(resp.items) < Cutoff
                       THEN pc' = "done" /\ UNCHANGED offset
                       ELSE pc' = "loop" /\ offset' = offset + PageLimit

(***************************************************************************)
(* The fetch specification: one call of one fetch function, any argument   *)
(* max_pages in 0..MaxPagesBound, against any endpoint behaviour.          *)
(***************************************************************************)
\* The session before the first click: no key is set.
Unset == [by |-> 0, val |-> "unset"]

SessionKeys == {"kalshi_markets_df", "kalshi_trades_df", "pm_gamma_df",
                "pm_books_by_token", "pm_trades_df", "pm_oi_df", "df_display"}

RefreshIdle ==
    /\ session_state = [k \in SessionKeys |-> Unset]
    /\ refresh_no = 0
    /\ last_refresh = [choice |-> NoneV, fail |-> NoneV]

NormIdle ==
    /\ norm_in = NoneV
    /\ norm_op = NoneV
    /\ norm_out = NoneV

BooksIdle ==
    /\ books_token_ids = NoneV
    /\ books_chunk_size = 0
    /\ books_out = NoneV

InitFetch ==
    /\ RefreshIdle
    /\ NormIdle
    /\ BooksIdle
    /\ fetcher \in Fetchers
    /\ max_pages \in 0..MaxPagesBound
    /\ pc = "loop"
    /\ pages_fetched = 0
    /\ offset = 0
    /\ cursor = NoneV
    /\ all_rows = <<>>
    /\ served = <<>>

NextFetch ==
    \/ KalshiMarketsStep /\ UNCHANGED <<refreshVars, normVars, booksVars>>
    \/ KalshiTradesStep /\ UNCHANGED <<refreshVars, normVars, booksVars>>
    \/ GammaMarketsStep /\ UNCHANGED <<refreshVars, normVars, booksVars>>
    \/ PmTradesStep /\ UNCHANGED <<refreshVars, normVars, booksVars>>

SpecFetch == InitFetch /\ [][NextFetch]_vars

(***************************************************************************)
(* Properties of the fetchers.                                             *)
(***************************************************************************)
OkPage(e) == e.resp.kind = "ok"
CursorBased == fetcher \in {"fetch_kalshi_markets", "fetch_kalshi_trades_last_week"}

\* The items of the pages of a history, in request order.
RECURSIVE ConcatItems(_)
ConcatItems(hist) ==
    IF hist = <<>> THEN <<>>
    ELSE ConcatItems(SubSeq(hist, 1, Len(hist) - 1)) \o hist[Len(hist)].resp.items

\* The endpoint answered with a full page and, where the protocol has one, a
\* continuation token.
FullPageWithToken(e) ==
    /\ OkPage(e)
    /\ Len(e.resp.items) = PageLimit
    /\ CursorBased => Truthy(e.resp.cursor)

AlwaysFull == \A i \in DOMAIN served : FullPageWithToken(served[i])

\* C1: against an endpoint that always returns a full page with a continuation
\* token, a market fetch with max_pages >= 1 keeps requesting until it has issued
\* exactly max_pages requests, then returns the concatenation of those pages.
C1_PaginationCeiling ==
    (/\ fetcher \in {"fetch_kalshi_markets", "fetch_gamma_markets"}
     /\ max_pages >= 1
     /\ AlwaysFull)
    => /\ Len(served) <= max_pages
       /\ pc # "raised"
       /\ Len(served) < max_pages => pc = "loop"
       /\ pc = "done" => /\ Len(served) = max_pages
                         /\ all_rows = ConcatItems(served)

\* C1 witness: fetch_kalshi_markets(max_pages=3) returned after 3 full pages.
C1_Witness ==
    /\ fetcher = "fetch_kalshi_markets"
    /\ max_pages = 3
    /\ pc = "done"
    /\ AlwaysFull
    /\ Len(served) = 3
    /\ Len(all_rows) = 3 * PageLimit

\* C2: when the request for page k fails, the fetch has stopped, has not raised,
\* and returns the items of pages 1..k-1.
C2_PartialResultOnError ==
    \A k \in DOMAIN served :
        served[k].resp.kind = "error"
        => /\ k = Len(served)
           /\ pc = "done"
           /\ all_rows = ConcatItems(SubSeq(served, 1, k - 1))

\* C4: a paginated fetch never issues more than max_pages requests, has stopped
\* as soon as a page came back empty, never requests another page after an
\* empty page, and (cursor-based) never requests another page after a response
\* without a cursor; once over the cap it has stopped.
C4_FetchTermination ==
    /\ Len(served) <= max_pages
    /\ pages_fetched > max_pages => pc # "loop"
    /\ (/\ served # <<>>
        /\ OkPage(served[Len(served)])
        /\ served[Len(served)].resp.items = <<>>) => pc = "done"
    /\ \A i \in 1..(Len(served) - 1) :
        /\ OkPage(served[i])
        /\ served[i].resp.items # <<>>
        /\ CursorBased => Truthy(served[i].resp.cursor)

\* The trades of a page that carry a timestamp at or after the cutoff.
InWindow(e) ==
    IF e.resp.kind = "ok"
    THEN SelectSeq(e.resp.items, LAMBDA t : t.has_ts /\ ~(t.ts < Cutoff))
    ELSE <<>>

RECURSIVE ConcatInWindow(_)
ConcatInWindow(hist) ==
    IF hist = <<>> THEN <<>>
    ELSE ConcatInWindow(SubSeq(hist, 1, Len(hist) - 1)) \o InWindow(hist[Len(hist)])

\* C5: fetch_polymarket_trades_last_7d requests no page after one whose oldest
\* timestamp is below the cutoff; every trade it holds has timestamp >= cutoff;
\* and what it returns is every trade with timestamp >= cutoff of the pages it
\* requested, in order.
C5_TimeWindow ==
    fetcher = "fetch_polymarket_trades_last_7d"
    => /\ \A i \in 1..(Len(served) - 1) :
            /\ OkPage(served[i])
            /\ \A j \in DOMAIN served[i].resp.items :
                    /\ served[i].resp.items[j].has_ts
                    /\ served[i].resp.items[j].ts >= Cutoff
       /\ \A j \in DOMAIN all_rows : all_rows[j].ts >= Cutoff
       /\ pc = "done" => all_rows = ConcatInWindow(served)

\* C5 witness: the fetch stopped, below its page cap, on a second page that
\* straddles the cutoff, and kept that page's recent trade.
C5_Witness ==
    /\ fetcher = "fetch_polymarket_trades_last_7d"
    /\ pc = "done"
    /\ max_pages = 3
    /\ Len(served) = 2
    /\ OkPage(served[2])
    /\ Len(served[2].resp.items) = 2
    /\ served[2].resp.items[1] = [has_ts |-> TRUE, ts |-> Cutoff]
    /\ served[2].resp.items[2] = [has_ts |-> TRUE, ts |-> Cutoff - 1]
    /\ Len(all_rows) = PageLimit + 1

(***************************************************************************)
(* app.py, "if st.button('Refresh Data'):" -- the whole handler, run to    *)
(* its end or to the first exception that leaves it.  An assignment to     *)
(* st.session_state takes effect when it is executed; an exception ends    *)
(* the script run and undoes nothing.                                      *)
(***************************************************************************)
Choices == {"Kalshi", "Polymarket", "Both"}
WantsKalshi(choice) == choice \in {"Kalshi", "Both"}
WantsPolymarket(choice) == choice \in {"Polymarket", "Both"}

\* The calls of the handler that can raise, in program order.
KalshiCalls == <<"fetch_kalshi_markets", "fetch_kalshi_trades_last_week", "build_kalshi_display_df">>
PolymarketCalls == <<"fetch_gamma_markets", "fetch_clob_books",
                     "fetch_polymarket_trades_last_7d", "fetch_polymarket_open_interest">>
Range(seq) == {seq[i] : i \in DOMAIN seq}
FailPoints == Range(KalshiCalls) \cup Range(PolymarketCalls)

\* Can the handler, run with this choice and these fetch results, fail at `fail`?
Feasible(choice, km_rows, gm_rows, fail) ==
    \/ fail = NoneV
    \/ /\ WantsKalshi(choice)
       /\ fail \in {"fetch_kalshi_markets", "fetch_kalshi_trades_last_week"}
    \/ \* df["option_name_from_title"] = df.apply(...) over a frame without columns:
       \* whether pandas accepts the assignment depends on its version
       /\ WantsKalshi(choice)
       /\ fail = "build_kalshi_display_df"
       /\ ~km_rows
    \/ /\ WantsPolymarket(choice)
       /\ fail \in {"fetch_gamma_markets", "fetch_polymarket_trades_last_7d",
                    "fetch_polymarket_open_interest"}
    \/ \* fetch_polymarket_markets asks for books only when Gamma returned rows
       /\ WantsPolymarket(choice)
       /\ fail = "fetch_clob_books"
       /\ gm_rows

\* Lines 41-52: the two Kalshi keys are assigned after both fetches returned, or
\* set to None when Kalshi is not selected.
KalshiKeysWritten(choice, fail) ==
    WantsKalshi(choice) => fail \notin {"fetch_kalshi_markets", "fetch_kalshi_trades_last_week"}

\* Lines 55-76: reached when the Kalshi branch was left normally; the four
\* Polymarket keys are assigned after the fetches returned, or set to None.
PolymarketKeysWritten(choice, fail) ==
    /\ fail \notin Range(KalshiCalls)
    /\ WantsPolymarket(choice) => fail \notin Range(PolymarketCalls)

\* Line 79: reached when nothing raised.
DisplayWritten(choice, fail) == fail = NoneV

WrittenOnlyIfSelected(k, choice, fail) ==
    IF k \in {"kalshi_markets_df", "kalshi_trades_df"}
    THEN WantsKalshi(choice) /\ KalshiKeysWritten(choice, fail)
    ELSE IF k = "df_display" THEN DisplayWritten(choice, fail)
    ELSE WantsPolymarket(choice) /\ PolymarketKeysWritten(choice, fail)
Written(k, choice, fail) ==
    IF k \in {"kalshi_markets_df", "kalshi_trades_df"} THEN KalshiKeysWritten(choice, fail)
    ELSE IF k = "df_display" THEN DisplayWritten(choice, fail)
    ELSE PolymarketKeysWritten(choice, fail)

\* What the handler assigns to key k.
NewVal(k, choice, km_rows, gm_rows) ==
    IF k \in {"kalshi_markets_df", "kalshi_trades_df"}
    THEN IF ~WantsKalshi(choice) THEN NoneV
         ELSE IF k = "kalshi_markets_df" /\ ~km_rows THEN "empty" ELSE "fetched"
    ELSE IF k = "df_display"
    THEN \* pd.concat(df_list): the platforms whose display rows it holds
         {pf \in {"Kalshi", "Polymarket"} :
            \/ pf = "Kalshi" /\ WantsKalshi(choice) /\ km_rows
            \/ pf = "Polymarket" /\ WantsPolymarket(choice) /\ gm_rows}
    ELSE IF ~WantsPolymarket(choice) THEN NoneV
         ELSE IF k \in {"pm_gamma_df", "pm_books_by_token"} /\ ~gm_rows THEN "empty" ELSE "fetched"

Refresh ==
    /\ refresh_no < MaxRefreshes
    /\ \E choice \in Choices, km_rows \in BOOLEAN, gm_rows \in BOOLEAN,
          fail \in FailPoints \cup {NoneV} :
        /\ Feasible(choice, km_rows, gm_rows, fail)
        /\ refresh_no' = refresh_no + 1
        /\ session_state' =
            [k \in SessionKeys |->
                IF Written(k, choice, fail)
                THEN [by |-> refresh_no + 1, val |-> NewVal(k, choice, km_rows, gm_rows)]
                ELSE session_state[k]]
        /\ last_refresh' = [choice |-> choice, fail |-> fail]
    /\ UNCHANGED <<fetchVars, normVars, booksVars>>

FetchIdle ==
    /\ fetcher = NoneV
    /\ max_pages = 0
    /\ pc = "idle"
    /\ pages_fetched = 0
    /\ offset = 0
    /\ cursor = NoneV
    /\ all_rows = <<>>
    /\ served = <<>>

InitRefresh == FetchIdle /\ RefreshIdle /\ NormIdle /\ BooksIdle

NextRefresh == Refresh

SpecRefresh == InitRefresh /\ [][NextRefresh]_vars

\* C3: a Refresh that follows a completed Refresh (a good snapshot) leaves every
\* key of the snapshot as it was, or leaves every key written by itself; never
\* some keys new and others (df_display in particular) old.
C3_SnapshotAtomicity ==
    [][(/\ refresh_no >= 1
        /\ \A k \in SessionKeys : session_state[k].by = refresh_no)
        => \/ session_state' = session_state
           \/ \A k \in SessionKeys : session_state'[k].by = refresh_no']_vars

(***************************************************************************)
(* market_transform.py: values.  A field of a record is a number, None,    *)
(* NaN, a string that is no number, or missing (the key or column is       *)
(* absent).  Dollar prices are held in units of 0.0001 dollar (Kalshi's    *)
(* four decimals) and percentages in units of 0.001 percent, so that       *)
(* "x * 100.0" is x * 10 and one decimal place is a multiple of 100.       *)
(***************************************************************************)
PyNone == [t |-> "None", v |-> 0]
PyNaN == [t |-> "NaN", v |-> 0]
PyStr == [t |-> "str", v |-> 0]
Missing == [t |-> "missing", v |-> 0]
Num(n) == [t |-> "num", v |-> n]

\* A text (an identifier, a label) is the sequence of its parts; a text field
\* is a text, None, a NaN or missing.
Text(s) == [t |-> "str", s |-> s]
NoText(t) == [t |-> t, s |-> <<>>]

\* row.get(key)
Get(x) == IF x.t = "missing" THEN PyNone ELSE x

\* Where a float lies exactly halfway between two neighbours in decimal, the
\* direction of round() depends on its binary representation: either way.
Ties == {"down", "up"}

\* round(x, 1), x in units of 0.001 percent
Round1(x, tie) ==
    LET lo == (x \div 100) * 100
        r  == x - lo
    IN  IF r < 50 THEN lo
        ELSE IF r > 50 THEN lo + 100
        ELSE IF tie = "up" THEN lo + 100 ELSE lo

\* round(sum / 2.0, 1), without losing the half unit of an odd sum
RoundHalf1(sum, tie) ==
    LET lo == (sum \div 200) * 100
        r  == sum - 2 * lo
    IN  IF r < 100 THEN lo
        ELSE IF r > 100 THEN lo + 100
        ELSE IF tie = "up" THEN lo + 100 ELSE lo

(***************************************************************************)
(* compute_probability(row)                                                *)
(***************************************************************************)
LastTradedUsableOrZero(lt) == lt.t # "None" /\ lt.t # "NaN" /\ lt.v >= 0
\* lt is not None and not np.isnan(lt) and lt > 0
LastTradedUsable(lt) == lt.t # "None" /\ lt.t # "NaN" /\ lt.v > 0

BothQuotedAlways(bid, ask) == bid.t # "None" /\ ask.t # "None"
\* bid is not None and ask is not None, then
\* not np.isnan(bid) and not np.isnan(ask) and (bid > 0 or ask > 0)
BothQuoted(bid, ask) ==
    /\ bid.t # "None" /\ ask.t # "None"
    /\ bid.t # "NaN" /\ ask.t # "NaN"
    /\ (bid.v > 0 \/ ask.v > 0)

FirstPositiveOrZero(bid, ask) ==
    IF bid.t # "None" /\ bid.t # "NaN" /\ bid.v > 0 THEN bid
    ELSE IF ask.t # "None" /\ ask.t # "NaN" /\ ask.v > 0 THEN ask
    ELSE Num(0)
\* for v in [bid, ask]: if v is not None and not np.isnan(v) and v > 0: return v
\* return None
FirstPositive(bid, ask) ==
    IF bid.t # "None" /\ bid.t # "NaN" /\ bid.v > 0 THEN bid
    ELSE IF ask.t # "None" /\ ask.t # "NaN" /\ ask.v > 0 THEN ask
    ELSE PyNone

compute_probability(row, tie) ==
    LET lt  == Get(row.last_traded_pct)
        bid == Get(row.yes_bid_pct)
        ask == Get(row.yes_ask_pct)
    IN  IF LastTradedUsable(lt) THEN lt
        ELSE IF BothQuoted(bid, ask) THEN Num(RoundHalf1(bid.v + ask.v, tie))
        ELSE FirstPositive(bid, ask)

(***************************************************************************)
(* compute_implied_yes_prob_from_dollars(row)                              *)
(***************************************************************************)
\* str(mtype).lower(), for the market types of the model
Lower(m) == IF m = "Binary" THEN "binary" ELSE IF m = "NaN" THEN "nan" ELSE m

\* mtype and str(mtype).lower() != "binary"  (None and "" are falsy, a NaN is not)
NonBinary(m) == m # NoneV /\ m # "" /\ Lower(m) # "binary"

\* to_float(x)
to_float(x) ==
    IF x.t \in {"None", "missing", "str"} THEN PyNone ELSE x

\* round(x * 100.0, 1), x a float
PctOfDollars(x, tie) == IF x.t = "NaN" THEN PyNaN ELSE Num(Round1(x.v * 10, tie))

compute_implied_yes_prob_from_dollars(row, tie) ==
    LET last    == to_float(row.last_price_dollars)
        yes_bid == to_float(row.yes_bid_dollars)
        yes_ask == to_float(row.yes_ask_dollars)
    IN  IF NonBinary(row.market_type) THEN PyNone
        ELSE IF last # PyNone THEN PctOfDollars(last, tie)
        ELSE IF yes_bid # PyNone /\ yes_ask # PyNone
        THEN IF yes_bid.t = "NaN" \/ yes_ask.t = "NaN" THEN PyNaN
             ELSE Num(RoundHalf1((yes_bid.v + yes_ask.v) * 10, tie))
        ELSE IF yes_bid # PyNone THEN PctOfDollars(yes_bid, tie)
        ELSE IF yes_ask # PyNone THEN PctOfDollars(yes_ask, tie)
        ELSE PyNone

(***************************************************************************)
(* build_kalshi_display_df, for one row of the frame.                      *)
(***************************************************************************)
\* (df_display[col].astype(float) * 100).round(1), for a column that exists
PctColumn(x, tie) ==
    IF x.t = "missing" THEN Missing
    ELSE IF x.t \in {"None", "NaN"} THEN PyNaN
    ELSE Num(Round1(x.v * 10, tie))

\* The roundings of the builder: Python's round() of implied_yes_prob, numpy's
\* round of the three percent columns, Python's round() of implied_prob_pct.
RoundSites == {"implied_yes_prob", "pct_columns", "implied_prob_pct"}

\* The builder raised: no frame is returned.
Raised == [raised |-> TRUE, rows |-> <<>>]
Built(rows) == [raised |-> FALSE, rows |-> rows]

build_kalshi_display_df(row, ties) ==
    IF \E f \in {"last_price_dollars", "yes_bid_dollars", "yes_ask_dollars"} : row[f].t = "str"
    THEN \* astype(float) raises ValueError
         Raised
    ELSE LET pct == [last_traded_pct |-> PctColumn(row.last_price_dollars, ties["pct_columns"]),
                     yes_bid_pct |-> PctColumn(row.yes_bid_dollars, ties["pct_columns"]),
                     yes_ask_pct |-> PctColumn(row.yes_ask_dollars, ties["pct_columns"])]
         IN  Built(<<
             [ticker |-> row.ticker,
              \* if "event_ticker" not in df_display.columns:
              \*     df_display["event_ticker"] = df_display.get("ticker")
              event_ticker |-> IF row.event_ticker.t = "missing" THEN row.ticker
                               ELSE row.event_ticker,
              platform |-> "Kalshi",
              market_type |-> row.market_type,
              implied_yes_prob |->
                  compute_implied_yes_prob_from_dollars(row, ties["implied_yes_prob"]),
              last_traded_pct |-> pct.last_traded_pct,
              yes_bid_pct |-> pct.yes_bid_pct,
              yes_ask_pct |-> pct.yes_ask_pct,
              implied_prob_pct |-> compute_probability(pct, ties["implied_prob_pct"])] >>)

(***************************************************************************)
(* build_polymarket_display_df, for one Gamma record and the books.        *)
(***************************************************************************)
\* parse_listish (the builder's own): a list, or a string holding a JSON
\* array, is that list; anything else is []
parse_listish(x) == IF x.form \in {"list", "json"} THEN x.items ELSE <<>>

\* A side of a book: Missing when it has no levels, else the price of level 0
\* (PyStr: float() of it raises).
_best_prices_from_book(book) ==
    LET bid_raises == book.bids.t \in {"str", "None"}
        ask_raises == book.asks.t \in {"str", "None"}
        best_bid == IF book.bids.t = "missing" \/ bid_raises THEN PyNone ELSE book.bids
        best_ask == IF book.asks.t = "missing" \/ bid_raises \/ ask_raises
                    THEN PyNone ELSE book.asks
    IN  <<best_bid, best_ask>>

\* lines 193-214: the mid of the book's best prices, else outcomePrices[i];
\* times 100, rounded to one decimal
implied_from_price_first(yes_bid, yes_ask, op, tie) ==
    IF op.t = "num" THEN Num(Round1(op.v * 10, tie))
    ELSE IF yes_bid # PyNone /\ yes_ask # PyNone
    THEN Num(RoundHalf1((yes_bid.v + yes_ask.v) * 10, tie))
    ELSE IF yes_bid # PyNone THEN Num(Round1(yes_bid.v * 10, tie))
    ELSE IF yes_ask # PyNone THEN Num(Round1(yes_ask.v * 10, tie))
    ELSE PyNone
implied_from_mid(yes_bid, yes_ask, op, tie) ==
    IF yes_bid # PyNone /\ yes_ask # PyNone
    THEN IF yes_bid.t = "NaN" \/ yes_ask.t = "NaN" THEN PyNone
         ELSE Num(RoundHalf1((yes_bid.v + yes_ask.v) * 10, tie))
    ELSE IF yes_bid # PyNone
    THEN IF yes_bid.t = "NaN" THEN PyNone ELSE Num(Round1(yes_bid.v * 10, tie))
    ELSE IF yes_ask # PyNone
    THEN IF yes_ask.t = "NaN" THEN PyNone ELSE Num(Round1(yes_ask.v * 10, tie))
    ELSE \* float(op) raises for a string that is no number; a NaN is dropped
         IF op.t \in {"None", "str", "NaN"} THEN PyNone
         ELSE Num(Round1(op.v * 10, tie))

\* None if x is None else round(x * 100.0, 1)
PctOrNone(x, tie) == IF x = PyNone THEN PyNone ELSE PctOfDollars(x, tie)

\* if len(outcome_prices) != len(outcomes): outcome_prices = [None] * len(outcomes)
KeepMismatchedPrices(prices, outcomes) ==
    [i \in 1..Len(outcomes) |-> IF i <= Len(prices) THEN prices[i] ELSE PyNone]
DiscardIfMismatched(prices, outcomes) ==
    IF Len(prices) # Len(outcomes) THEN [i \in 1..Len(outcomes) |-> PyNone] ELSE prices

\* x or y, for identifiers (None and "" are falsy)
Or(x, y) == IF x \in {NoneV, ""} THEN y ELSE x

\* if token_id and token_id in books_by_token: _best_prices_from_book(b)
BookBest(token_ids, books_by_token, i) ==
    IF i <= Len(token_ids) /\ token_ids[i] \in DOMAIN books_by_token
    THEN _best_prices_from_book(books_by_token[token_ids[i]])
    ELSE <<PyNone, PyNone>>

\* An identifier is the sequence of its parts (str() of each).
build_polymarket_display_df(m, books_by_token, tie) ==
    LET outcomes   == parse_listish(m.outcomes)
        prices     == parse_listish(m.outcomePrices)
        token_ids  == parse_listish(m.clobTokenIds)
        outcome_prices == DiscardIfMismatched(prices, outcomes)
        \* m.get("question") or m.get("title") or m.get("slug") or "Polymarket market"
        question   == "question"
        row(i) ==
            LET best == BookBest(token_ids, books_by_token, i)
            IN  [event_ticker |-> Text(<<Or(Or(m.slug, m.conditionId), question)>>),
                 ticker |-> IF i <= Len(token_ids)
                            THEN Text(<<"token", ToString(token_ids[i])>>)
                            ELSE Text(<<m.conditionId, ":", ToString(outcomes[i])>>),
                 yes_sub_title |-> Text(<<ToString(outcomes[i])>>),
                 platform |-> "Polymarket",
                 market_type |-> IF Len(outcomes) > 2 THEN "categorical" ELSE "binary",
                 implied_yes_prob |-> implied_from_mid(best[1], best[2], outcome_prices[i], tie),
                 last_traded_pct |-> PyNone,
                 yes_bid_pct |-> PctOrNone(best[1], tie),
                 yes_ask_pct |-> PctOrNone(best[2], tie),
                 implied_prob_pct |-> Missing]
    IN  Built([i \in 1..Len(outcomes) |-> row(i)])

(***************************************************************************)
(* The normalizer specification: a record is drawn, one function is        *)
(* applied to it.                                                          *)
(***************************************************************************)
\* -1.0, 0, 30.0, 40.0, 40.1, 60.0 and 150.0 percent
PctValues == {Num(n) : n \in {-1000, 0, 30000, 40000, 40100, 60000, 150000}}
                \cup {PyNone, PyNaN}
PctRows == [last_traded_pct : PctValues, yes_bid_pct : PctValues, yes_ask_pct : PctValues]

\* -0.05, 0, 0.40, 0.4005, 0.60 and 1.50 dollars
DollarValues == {Num(n) : n \in {-500, 0, 4000, 4005, 6000, 15000}}
                    \cup {PyNone, PyNaN, PyStr, Missing}
MarketTypes == {NoneV, "", "binary", "Binary", "scalar", "NaN"}
\* event_ticker of a record: missing when no record of the fetch has the key
\* (the frame has no such column), a NaN when only other records have it
KalshiEventTickers == {NoText("missing"), NoText("NaN"), Text(<<"EVENT">>)}
KalshiRows == [ticker : {Text(<<"EVENT", "-", "A">>)}, event_ticker : KalshiEventTickers,
               market_type : MarketTypes, last_price_dollars : DollarValues,
               yes_bid_dollars : DollarValues, yes_ask_dollars : DollarValues]

\* outcomePrices entries: 0.70, 1.50, or a string that is no number
PmPriceValues == {Num(7000), Num(15000), PyStr}
Json(items) == [form |-> "json", items |-> items]
PriceLists == {Json(p) : p \in SeqsUpTo(PmPriceValues, MaxOutcomes)}
                \cup {[form |-> "None", items |-> <<>>]}
OutcomeNames == [i \in 1..(MaxOutcomes + 1) |-> i]
\* The books of the CLOB: bid 0.40 / ask 0.60; bid 0.4005 only; a bid that is
\* no number beside an ask of 0.60; ask 1.20 only.
Books == {[bids |-> Num(4000), asks |-> Num(6000)],
          [bids |-> Num(4005), asks |-> Missing],
          [bids |-> PyStr, asks |-> Num(6000)],
          [bids |-> Missing, asks |-> Num(12000)]}
\* One Gamma record with n outcomes, the price list pl and tc token ids, and
\* the books bk of some of its tokens.
GammaRow(n, pl, tc, bk, ids) ==
    [m |-> [slug |-> ids[1],
            conditionId |-> ids[2],
            outcomes |-> Json(SubSeq(OutcomeNames, 1, n)),
            outcomePrices |-> pl,
            clobTokenIds |-> Json([i \in 1..tc |-> i])],
     books_by_token |-> bk]
\* slug and conditionId of a Gamma record
GammaIds == {<<"slug", "cond">>, <<"", "cond">>, <<NoneV, NoneV>>}

InitNorm ==
    /\ FetchIdle
    /\ RefreshIdle
    /\ BooksIdle
    /\ \/ \E r \in PctRows : norm_in = [kind |-> "pct", row |-> r]
       \/ \E r \in KalshiRows : norm_in = [kind |-> "kalshi", row |-> r]
       \/ \E n \in 0..MaxOutcomes, pl \in PriceLists, tc \in 0..MaxOutcomes :
            \E T \in SUBSET (1..tc) :
                \E bk \in [T -> Books], ids \in GammaIds :
                    norm_in = [kind |-> "gamma", row |-> GammaRow(n, pl, tc, bk, ids)]
    /\ norm_op = "input"
    /\ norm_out = NoneV

ApplyComputeProbability ==
    /\ norm_op = "input"
    /\ norm_in.kind = "pct"
    /\ \E tie \in Ties : norm_out' = compute_probability(norm_in.row, tie)
    /\ norm_op' = "compute_probability"
    /\ UNCHANGED <<norm_in, fetchVars, refreshVars, booksVars>>

ApplyComputeImplied ==
    /\ norm_op = "input"
    /\ norm_in.kind = "kalshi"
    /\ \E tie \in Ties : norm_out' = compute_implied_yes_prob_from_dollars(norm_in.row, tie)
    /\ norm_op' = "compute_implied_yes_prob_from_dollars"
    /\ UNCHANGED <<norm_in, fetchVars, refreshVars, booksVars>>

ApplyBuildKalshi ==
    /\ norm_op = "input"
    /\ norm_in.kind = "kalshi"
    /\ \E ties \in [RoundSites -> Ties] :
            norm_out' = build_kalshi_display_df(norm_in.row, ties)
    /\ norm_op' = "build_kalshi_display_df"
    /\ UNCHANGED <<norm_in, fetchVars, refreshVars, booksVars>>

ApplyBuildPolymarket ==
    /\ norm_op = "input"
    /\ norm_in.kind = "gamma"
    /\ \E tie \in Ties :
            norm_out' = build_polymarket_display_df(norm_in.row.m, norm_in.row.books_by_token, tie)
    /\ norm_op' = "build_polymarket_display_df"
    /\ UNCHANGED <<norm_in, fetchVars, refreshVars, booksVars>>

NextNorm ==
    \/ ApplyComputeProbability
    \/ ApplyComputeImplied
    \/ ApplyBuildKalshi
    \/ ApplyBuildPolymarket

SpecNorm == InitNorm /\ [][NextNorm]_vars

(***************************************************************************)
(* Properties of the normalizers.                                          *)
(***************************************************************************)
\* 0 <= p <= 100 percent, in units of 0.001 percent
InPercentRange(p) == p.t = "num" => (p.v >= 0 /\ p.v <= 100 * 1000)

IsBuild == norm_op \in {"build_kalshi_display_df", "build_polymarket_display_df"}

\* C6: every DisplayRow a builder produces has implied_yes_prob unknown or in
\* [0, 100], whatever prices the exchange or the order book supplied.
C6_RangeInvariant ==
    IsBuild =>
        \A i \in DOMAIN norm_out.rows : InPercentRange(norm_out.rows[i].implied_yes_prob)

\* r is the mean of a and b rounded to one decimal (a multiple of 0.1 percent
\* at most 0.05 away from the mean).
IsRoundedMean(r, a, b) ==
    /\ r % 100 = 0
    /\ 2 * r - (a + b) >= -100
    /\ 2 * r - (a + b) <= 100

Positive(x) == x.t = "num" /\ x.v > 0

\* C7: compute_probability with last_traded_pct exactly 0 and bid and ask both
\* known and > 0 returns the mean of bid and ask rounded to one decimal, never
\* the last traded value 0.
C7_ZeroLastFallsThrough ==
    (/\ norm_op = "compute_probability"
     /\ norm_in.row.last_traded_pct = Num(0)
     /\ Positive(norm_in.row.yes_bid_pct)
     /\ Positive(norm_in.row.yes_ask_pct))
    => /\ norm_out.t = "num"
       /\ norm_out.v # 0
       /\ IsRoundedMean(norm_out.v, norm_in.row.yes_bid_pct.v, norm_in.row.yes_ask_pct.v)

\* C7 witness: last=0, bid=40.0, ask=60.0 gave 50.0.
C7_Witness ==
    /\ norm_op = "compute_probability"
    /\ norm_in.row = [last_traded_pct |-> Num(0), yes_bid_pct |-> Num(40000),
                      yes_ask_pct |-> Num(60000)]
    /\ norm_out = Num(50000)

\* C8: a Kalshi DisplayRow of a binary (or untyped) market whose
\* last_price_dollars is 0 and whose yes bid and ask are known and > 0 has its
\* implied_yes_prob derived from bid and ask (their mean, as a percentage), not
\* reported as 0.
C8_KalshiZeroLastUsesQuotes ==
    (/\ norm_op = "build_kalshi_display_df"
     /\ ~norm_out.raised
     /\ ~NonBinary(norm_in.row.market_type)
     /\ norm_in.row.last_price_dollars = Num(0)
     /\ Positive(norm_in.row.yes_bid_dollars)
     /\ Positive(norm_in.row.yes_ask_dollars))
    => /\ norm_out.rows[1].implied_yes_prob.t = "num"
       /\ norm_out.rows[1].implied_yes_prob.v # 0
       /\ IsRoundedMean(norm_out.rows[1].implied_yes_prob.v,
                        norm_in.row.yes_bid_dollars.v * 10,
                        norm_in.row.yes_ask_dollars.v * 10)

NotANumber(x) == x.t \in {"None", "NaN"}

\* C9: compute_probability with last_traded_pct unknown or not > 0, one of bid
\* and ask known and > 0 and the other unknown, returns that one value unchanged.
C9_SingleSidedQuote ==
    (/\ norm_op = "compute_probability"
     /\ ~Positive(norm_in.row.last_traded_pct))
    => /\ (Positive(norm_in.row.yes_bid_pct) /\ NotANumber(norm_in.row.yes_ask_pct))
            => norm_out = norm_in.row.yes_bid_pct
       /\ (Positive(norm_in.row.yes_ask_pct) /\ NotANumber(norm_in.row.yes_bid_pct))
            => norm_out = norm_in.row.yes_ask_pct

\* C9 witness: bid=30.0, ask=None, last=None gave 30.0.
C9_Witness ==
    /\ norm_op = "compute_probability"
    /\ norm_in.row = [last_traded_pct |-> PyNone, yes_bid_pct |-> Num(30000),
                      yes_ask_pct |-> PyNone]
    /\ norm_out = Num(30000)

AllThree(row, fields, tags) == \A f \in fields : row[f].t \in tags
PctFields == {"last_traded_pct", "yes_bid_pct", "yes_ask_pct"}
DollarFields == {"last_price_dollars", "yes_bid_dollars", "yes_ask_dollars"}

\* C10: with last, bid and ask all unknown, compute_probability and
\* compute_implied_yes_prob_from_dollars return None (for fields that are None
\* or absent) and in no case a number (also for fields that are NaN).
C10_UnknownIsNotZero ==
    /\ (norm_op = "compute_probability" /\ AllThree(norm_in.row, PctFields, {"None", "NaN"}))
        => norm_out = PyNone
    /\ (/\ norm_op = "compute_implied_yes_prob_from_dollars"
        /\ AllThree(norm_in.row, DollarFields, {"None", "missing"}))
        => norm_out = PyNone
    /\ (/\ norm_op = "compute_implied_yes_prob_from_dollars"
        /\ AllThree(norm_in.row, DollarFields, {"None", "missing", "NaN"}))
        => norm_out.t # "num"

\* C10 witness: compute_implied_yes_prob_from_dollars returned None for a binary
\* market with no price at all.
C10_Witness ==
    /\ norm_op = "compute_implied_yes_prob_from_dollars"
    /\ norm_in.row.market_type = "binary"
    /\ AllThree(norm_in.row, DollarFields, {"None"})
    /\ norm_out = PyNone

\* C11: every DisplayRow of a builder whose market type is specified and is
\* not binary has implied_yes_prob unknown, for Kalshi rows and for exploded
\* Polymarket rows alike.
C11_NonBinaryExclusion ==
    IsBuild =>
        \A i \in DOMAIN norm_out.rows :
            NonBinary(norm_out.rows[i].market_type)
                => norm_out.rows[i].implied_yes_prob.t # "num"

\* The Gamma record handed to build_polymarket_display_df and its lists.
GammaIn == norm_in.row.m
OutcomesIn == parse_listish(GammaIn.outcomes)
PricesIn == parse_listish(GammaIn.outcomePrices)
BestIn(i) == BookBest(parse_listish(GammaIn.clobTokenIds), norm_in.row.books_by_token, i)
NoBookPrice(best) == best[1] = PyNone /\ best[2] = PyNone

\* p is the percentage of the book's best prices: of their mean when there are
\* both, of the single one otherwise (best holds at least one).
BookDerived(p, best) ==
    /\ p.t = "num"
    /\ IF best[1] # PyNone /\ best[2] # PyNone
       THEN IsRoundedMean(p.v, best[1].v * 10, best[2].v * 10)
       ELSE IF best[1] # PyNone THEN IsRoundedMean(p.v, best[1].v * 10, best[1].v * 10)
       ELSE IsRoundedMean(p.v, best[2].v * 10, best[2].v * 10)

\* C14: build_polymarket_display_df emits exactly one row per entry of the
\* record's outcome list, in outcome order; when the price list's length
\* differs from the outcome list's, the price list is discarded: each row's
\* implied_yes_prob comes from the best bid/ask of its token's book only, and
\* is unknown when the book gives no price.
C14_Explosion ==
    norm_op = "build_polymarket_display_df" =>
        /\ ~norm_out.raised
        /\ Len(norm_out.rows) = Len(OutcomesIn)
        /\ \A i \in 1..Len(OutcomesIn) :
                norm_out.rows[i].yes_sub_title = Text(<<ToString(OutcomesIn[i])>>)
        /\ Len(PricesIn) # Len(OutcomesIn) =>
                \A i \in 1..Len(OutcomesIn) :
                    IF NoBookPrice(BestIn(i))
                    THEN norm_out.rows[i].implied_yes_prob = PyNone
                    ELSE BookDerived(norm_out.rows[i].implied_yes_prob, BestIn(i))

\* C14 witness: three outcomes with two prices (0.70, 0.70) and a book
\* (0.40 / 0.60) for the first token only gave three rows, 50.0 for the first
\* and unknown for the second.
C14_Witness ==
    /\ norm_op = "build_polymarket_display_df"
    /\ Len(OutcomesIn) = 3
    /\ PricesIn = <<Num(7000), Num(7000)>>
    /\ DOMAIN norm_in.row.books_by_token = {1}
    /\ Len(norm_out.rows) = 3
    /\ norm_out.rows[1].implied_yes_prob = Num(50000)
    /\ norm_out.rows[2].implied_yes_prob = PyNone

\* C15: a row's implied_yes_prob is computed from the best bid and/or ask of
\* its token's book (their mean, or the single one) whenever the book yields
\* one, outcomePrices being ignored; the outcome's price is used only when the
\* book yields neither.
C15_OrderBookPriority ==
    norm_op = "build_polymarket_display_df" =>
        \A i \in DOMAIN norm_out.rows :
            LET p == norm_out.rows[i].implied_yes_prob
            IN  IF ~NoBookPrice(BestIn(i)) THEN BookDerived(p, BestIn(i))
                ELSE IF Len(PricesIn) = Len(OutcomesIn) /\ PricesIn[i].t = "num"
                THEN p.t = "num" /\ IsRoundedMean(p.v, PricesIn[i].v * 10, PricesIn[i].v * 10)
                ELSE p = PyNone

\* C15 witness: two outcomes priced 0.70 each, a book (0.40 / 0.60) for the
\* first token only: 50.0 from the book, 70.0 from outcomePrices.
C15_Witness ==
    /\ norm_op = "build_polymarket_display_df"
    /\ PricesIn = <<Num(7000), Num(7000)>>
    /\ Len(OutcomesIn) = 2
    /\ DOMAIN norm_in.row.books_by_token = {1}
    /\ norm_in.row.books_by_token[1] = [bids |-> Num(4000), asks |-> Num(6000)]
    /\ norm_out.rows[1].implied_yes_prob = Num(50000)
    /\ norm_out.rows[2].implied_yes_prob = Num(70000)

\* The grouping identifier of the record a builder was handed: event_ticker
\* of a Kalshi record, slug or else conditionId of a Gamma record; None when
\* the record has none.
GroupingId ==
    IF norm_in.kind = "kalshi"
    THEN IF norm_in.row.event_ticker.t = "str" THEN norm_in.row.event_ticker
         ELSE NoText("None")
    ELSE IF Or(GammaIn.slug, GammaIn.conditionId) \in {NoneV, ""} THEN NoText("None")
         ELSE Text(<<Or(GammaIn.slug, GammaIn.conditionId)>>)

\* C16: every DisplayRow of either builder carries its platform tag and an
\* event_ticker that is not missing: the record's own grouping identifier
\* when it has one, else the row's own ticker; per row, also when other
\* records of the same fetch have a grouping identifier.
C16_EventTickerAssignment ==
    (IsBuild /\ ~norm_out.raised) =>
        \A i \in DOMAIN norm_out.rows :
            /\ norm_out.rows[i].platform =
                    (IF norm_in.kind = "kalshi" THEN "Kalshi" ELSE "Polymarket")
            /\ norm_out.rows[i].event_ticker.t = "str"
            /\ norm_out.rows[i].event_ticker =
                    (IF GroupingId.t = "str" THEN GroupingId ELSE norm_out.rows[i].ticker)

(***************************************************************************)
(* outcome_label(row) of the event card.  A string is the sequence of its  *)
(* characters; a field of the row is a string, None, a NaN (the cell of a  *)
(* column another platform's rows lack) or missing.                        *)
(***************************************************************************)
MaxLabelLen == 3

\* s.lstrip(c)
RECURSIVE LStripChar(_, _)
LStripChar(s, c) == IF s # <<>> /\ Head(s) = c THEN LStripChar(Tail(s), c) ELSE s

\* s.rstrip(c)
RECURSIVE RStripChar(_, _)
RStripChar(s, c) ==
    IF s # <<>> /\ s[Len(s)] = c THEN RStripChar(SubSeq(s, 1, Len(s) - 1), c) ELSE s

\* s.strip()
strip(s) == RStripChar(LStripChar(s, " "), " ")

\* "-" in s
HasHyphen(s) == \E i \in 1..Len(s) : s[i] = "-"

\* s.split("-")[-1]
LastPart(s) ==
    IF HasHyphen(s)
    THEN LET last == CHOOSE i \in 1..Len(s) :
                        s[i] = "-" /\ \A j \in (i + 1)..Len(s) : s[j] # "-"
         IN  SubSeq(s, last + 1, Len(s))
    ELSE s

\* s.startswith("::")
StartsWithMarker(s) == Len(s) >= 2 /\ s[1] = ":" /\ s[2] = ":"

\* str(row.get("ticker", ""))
StrOfTicker(x) ==
    IF x.t = "str" THEN x.s
    ELSE IF x.t = "None" THEN <<"N", "o", "n", "e">>
    ELSE IF x.t = "NaN" THEN <<"n", "a", "n">>
    ELSE <<>>

Unknown == <<"(", "u", "n", "k", "n", "o", "w", "n", ")">>

\* if not label: label = "(unknown)"
OrUnknownNever(label) == label
OrUnknown(label) == IF label = <<>> THEN Unknown ELSE label

outcome_label(row) ==
    LET from_title == row.option_name_from_title
        raw        == row.yes_sub_title
        hint       == IF raw.t = "str" THEN strip(raw.s) ELSE <<>>
        ticker     == strip(StrOfTicker(row.ticker))
        label      == IF hint # <<>> THEN hint
                      ELSE IF HasHyphen(ticker) THEN strip(LastPart(ticker))
                      ELSE ticker
        cleaned    == IF StartsWithMarker(label) THEN strip(LStripChar(label, ":"))
                      ELSE label
    IN  IF from_title.t = "str" /\ strip(from_title.s) # <<>>
        THEN strip(from_title.s)
        ELSE OrUnknown(cleaned)

(***************************************************************************)
(* The label specification: a row is drawn, outcome_label is applied.      *)
(***************************************************************************)
NonStrings == {NoText("None"), NoText("NaN"), NoText("missing")}
\* extracted option names: none, empty, blank, a name, a name in blanks
OptionNames == NonStrings \cup {Text(<<>>), Text(<<" ">>), Text(<<"D">>),
                                Text(<<" ", "D", " ">>)}
Hints == NonStrings \cup {Text(s) : s \in SeqsUpTo({" ", ":", "D"}, MaxLabelLen)}
Tickers == NonStrings \cup {Text(s) : s \in SeqsUpTo({" ", ":", "-", "D"}, MaxLabelLen)}

InitLabel ==
    /\ FetchIdle
    /\ RefreshIdle
    /\ BooksIdle
    /\ \E o \in OptionNames, h \in Hints, k \in Tickers :
            norm_in = [kind |-> "label",
                       row |-> [option_name_from_title |-> o, yes_sub_title |-> h,
                                ticker |-> k]]
    /\ norm_op = "input"
    /\ norm_out = NoneV

ApplyOutcomeLabel ==
    /\ norm_op = "input"
    /\ norm_in.kind = "label"
    /\ norm_out' = outcome_label(norm_in.row)
    /\ norm_op' = "outcome_label"
    /\ UNCHANGED <<norm_in, fetchVars, refreshVars, booksVars>>

NextLabel == ApplyOutcomeLabel

SpecLabel == InitLabel /\ [][NextLabel]_vars

\* a field that gives no text: missing, None, not a string, empty or blank
Blank(x) == x.t # "str" \/ strip(x.s) = <<>>

\* C12: outcome_label returns a non-empty string for every row, whatever
\* combination of option_name_from_title, yes_sub_title and ticker is missing,
\* None, not a string, empty or blank.
C12_LabelTotalNonEmpty ==
    norm_op = "outcome_label" => (norm_out \in Seq(STRING) /\ Len(norm_out) > 0)

\* C12 witness: a row with no option name, a NaN hint and no ticker was
\* labelled "(unknown)".
C12_Witness ==
    /\ norm_op = "outcome_label"
    /\ norm_in.row = [option_name_from_title |-> NoText("missing"),
                      yes_sub_title |-> NoText("NaN"), ticker |-> NoText("missing")]
    /\ norm_out = Unknown

\* The four rules of the priority order, each giving a text or the empty one.
ExtractedName(row) ==
    IF Blank(row.option_name_from_title) THEN <<>> ELSE strip(row.option_name_from_title.s)
CleanedHint(row) ==
    IF row.yes_sub_title.t # "str" THEN <<>>
    ELSE LET trimmed == strip(row.yes_sub_title.s)
         IN  IF StartsWithMarker(trimmed) THEN strip(LStripChar(trimmed, ":")) ELSE trimmed
TickerSuffix(row) == strip(LastPart(strip(StrOfTicker(row.ticker))))

\* C13: outcome_label returns the first non-empty of the extracted option
\* name, the cleaned yes_sub_title, the ticker's suffix after its last hyphen
\* (the whole ticker without one) and "(unknown)"; a later rule is used
\* whenever every earlier one yields empty, also when yes_sub_title is only
\* the "::" marker.
C13_LabelPriorityOrder ==
    norm_op = "outcome_label" =>
        norm_out = IF ExtractedName(norm_in.row) # <<>> THEN ExtractedName(norm_in.row)
                   ELSE IF CleanedHint(norm_in.row) # <<>> THEN CleanedHint(norm_in.row)
                   ELSE IF TickerSuffix(norm_in.row) # <<>> THEN TickerSuffix(norm_in.row)
                   ELSE Unknown

(***************************************************************************)
(* app.py: the event grouping of the page.  df_display is the sequence of  *)
(* its rows in fetch order, each with the columns the grouping reads; a    *)
(* column the frame lacks is missing in every row.  title, category,       *)
(* status, close_time and platform only feed the card's header.            *)
(***************************************************************************)
MaxRows == 3

IsNa(x) == x.t \in {"None", "NaN", "missing"}

\* "col" in df.columns
HasColumn(df, col) == df # <<>> /\ df[1][col].t # "missing"

\* the orders n rows can be put in
PermTable ==
    [n \in 0..(MaxRows + 1) |->
        {p \in [1..n -> 1..n] : \A i, j \in 1..n : i # j => p[i] # p[j]}]

\* df.sort_values(col, ascending=False): kind="quicksort" is not stable, so
\* rows of equal value come out in any order; missing values come last, in
\* their original order.
sort_values(df, col) ==
    LET n == Len(df)
        Ordered(p) ==
            \A a, b \in 1..n :
                a < b =>
                    IF IsNa(df[p[a]][col]) THEN IsNa(df[p[b]][col]) /\ p[a] < p[b]
                    ELSE IsNa(df[p[b]][col]) \/ df[p[a]][col].v >= df[p[b]][col].v
    IN  {[i \in 1..n |-> df[p[i]]] : p \in {q \in PermTable[n] : Ordered(q)}}

\* the keys df.groupby("event_ticker") iterates over: sorted, missing dropped
EventKeys == <<Text(<<"E1">>), Text(<<"E2">>)>>
groupby_keys(df) ==
    SelectSeq(EventKeys, LAMBDA k : \E i \in 1..Len(df) : df[i].event_ticker = k)

\* group_sorted[col].fillna(0).sum()
RECURSIVE fillna_sum(_, _)
fillna_sum(group, col) ==
    IF group = <<>> THEN 0
    ELSE (IF IsNa(Head(group)[col]) THEN 0 ELSE Head(group)[col].v)
            + fillna_sum(Tail(group), col)

\* lines 161-170
total_oi(group_sorted) ==
    IF HasColumn(group_sorted, "open_interest")
    THEN Num(fillna_sum(group_sorted, "open_interest")) ELSE PyNone

total_vol_24h(group_sorted) ==
    IF HasColumn(group_sorted, "volume_24h")
    THEN Num(fillna_sum(group_sorted, "volume_24h")) ELSE Num(0)

\* the dict appended to events for one group
Event(event_id, group_sorted) ==
    [event_ticker |-> event_id,
     volume_24h |-> total_vol_24h(group_sorted),
     open_interest |-> total_oi(group_sorted),
     markets |-> group_sorted]

\* the lists the loop over df.groupby("event_ticker") can build
RECURSIVE EventLists(_, _)
EventLists(df, keys) ==
    IF keys = <<>> THEN {<<>>}
    ELSE LET group == SelectSeq(df, LAMBDA r : r.event_ticker = Head(keys))
         IN  {<<Event(Head(keys), group_sorted)>> \o rest :
                group_sorted \in sort_values(group, "implied_yes_prob"),
                rest \in EventLists(df, Tail(keys))}

\* e["volume_24h"] if e["volume_24h"] is not None else 0
VolumeKey(e) == IF e.volume_24h = PyNone THEN 0 ELSE e.volume_24h.v

\* sorted(events, key=..., reverse=True) is stable: an event stays ahead of
\* every later one whose key is not greater than its own
StaysAheadStrict(x, e) == VolumeKey(x) > VolumeKey(e)
StaysAhead(x, e) == VolumeKey(x) >= VolumeKey(e)

RECURSIVE sorted(_)
sorted(events) ==
    IF events = <<>> THEN <<>>
    ELSE LET n    == Len(events)
             e    == events[n]
             done == sorted(SubSeq(events, 1, n - 1))
         IN  SelectSeq(done, LAMBDA x : StaysAhead(x, e))
                \o <<e>> \o SelectSeq(done, LAMBDA x : ~StaysAhead(x, e))

(***************************************************************************)
(* The grouping specification: a frame is drawn, the page groups it.       *)
(***************************************************************************)
Probs == {PyNaN, Num(20000), Num(70000)}
\* The frames of a refresh.  Polymarket only: every row has an event_ticker
\* and a volume_24h (0 for a record without), no row a volume or an
\* open_interest.  With Kalshi rows:
\* event_ticker may be a NaN; volume_24h and open_interest are columns of the
\* frame (volume is then never read), or the records have a volume and no
\* volume_24h.
PolymarketCells == [event_ticker : {Text(<<"E1">>), Text(<<"E2">>)},
                    implied_yes_prob : Probs,
                    volume_24h : {Num(1), Num(2)},
                    volume : {Missing},
                    open_interest : {Missing}]
KalshiCells ==
    {[event_ticker |-> e, implied_yes_prob |-> p, volume_24h |-> q[1], volume |-> Missing,
      open_interest |-> q[2]] :
        e \in {NoText("NaN"), Text(<<"E1">>), Text(<<"E2">>)}, p \in Probs,
        q \in {<<PyNaN, Num(3)>>, <<Num(1), PyNaN>>}}
NoVolume24hCells == [event_ticker : {NoText("NaN"), Text(<<"E1">>), Text(<<"E2">>)},
                     implied_yes_prob : {PyNaN, Num(70000)},
                     volume_24h : {Missing},
                     volume : {PyNaN, Num(5)},
                     open_interest : {Num(3)}]
\* row i of the frame: its cells and its ticker
Row(cells, i) ==
    [ticker |-> Text(<<"T", ToString(i)>>),
     event_ticker |-> cells.event_ticker,
     implied_yes_prob |-> cells.implied_yes_prob,
     volume_24h |-> cells.volume_24h,
     volume |-> cells.volume,
     open_interest |-> cells.open_interest]

InitGroup ==
    /\ FetchIdle
    /\ RefreshIdle
    /\ BooksIdle
    /\ \E n \in 1..MaxRows, Cells \in {PolymarketCells, KalshiCells, NoVolume24hCells} :
            \* the frame has an event_ticker column because some record
            \* carries one
            \E f \in {h \in [1..n -> Cells] : \E i \in 1..n : h[i].event_ticker.t = "str"} :
                norm_in = [kind |-> "frame", row |-> [i \in 1..n |-> Row(f[i], i)]]
    /\ norm_op = "input"
    /\ norm_out = NoneV

\* lines 139-147: the frame sorted by volume, every row with an event_ticker
\* if the frame had no such column
SortedFrames(df) ==
    LET by_volume == IF HasColumn(df, "volume_24h") THEN sort_values(df, "volume_24h")
                     ELSE IF HasColumn(df, "volume") THEN sort_values(df, "volume")
                     ELSE {df}
    IN  {[i \in 1..Len(df) |->
            IF sorted_df[i].event_ticker.t = "missing"
            THEN [sorted_df[i] EXCEPT !.event_ticker = sorted_df[i].ticker]
            ELSE sorted_df[i]] : sorted_df \in by_volume}

\* lines 149-192: events and events_sorted, for every outcome of the sorts
group_events(df) ==
    UNION {{[events |-> events, events_sorted |-> sorted(events)] :
                events \in EventLists(df_display, groupby_keys(df_display))} :
            df_display \in SortedFrames(df)}

\* lines 136-192 of the page script
GroupEvents ==
    /\ norm_op = "input"
    /\ norm_in.kind = "frame"
    /\ norm_out' \in group_events(norm_in.row)
    /\ norm_op' = "group_events"
    /\ UNCHANGED <<norm_in, fetchVars, refreshVars, booksVars>>

NextGroup == GroupEvents

SpecGroup == InitGroup /\ [][NextGroup]_vars

\* The frame handed to the grouping, in fetch order, and what the page built.
FrameIn == norm_in.row
Grouped == norm_op = "group_events"
TickersOf(rows) == {rows[i].ticker : i \in 1..Len(rows)}

\* C17: after the grouping every row of the frame is in exactly one event's
\* member list, none dropped and none duplicated, and a row whose event
\* identifier is missing forms a group of its own keyed by its ticker.
C17_GroupingIsPartition ==
    Grouped =>
        \A i \in 1..Len(FrameIn) :
            /\ \E g \in 1..Len(norm_out.events) :
                /\ \E k \in 1..Len(norm_out.events[g].markets) :
                    /\ norm_out.events[g].markets[k].ticker = FrameIn[i].ticker
                    /\ \A k2 \in 1..Len(norm_out.events[g].markets) :
                        norm_out.events[g].markets[k2].ticker = FrameIn[i].ticker => k2 = k
                /\ \A g2 \in 1..Len(norm_out.events) :
                    FrameIn[i].ticker \in TickersOf(norm_out.events[g2].markets) => g2 = g
            /\ IsNa(FrameIn[i].event_ticker) =>
                \E g \in 1..Len(norm_out.events) :
                    /\ norm_out.events[g].event_ticker = FrameIn[i].ticker
                    /\ TickersOf(norm_out.events[g].markets) = {FrameIn[i].ticker}
                    /\ Len(norm_out.events[g].markets) = 1

\* the place of a row in the frame as fetched
FetchPos(r) == CHOOSE i \in 1..Len(FrameIn) : FrameIn[i].ticker = r.ticker

\* C18: the members of every event are in descending order of
\* implied_yes_prob, the unknown ones last, and members of equal probability
\* in their original fetch order.
C18_MemberOrdering ==
    Grouped =>
        \A g \in 1..Len(norm_out.events) :
            LET markets == norm_out.events[g].markets
            IN  \A a, b \in 1..Len(markets) :
                    a < b =>
                        LET x == markets[a].implied_yes_prob
                            y == markets[b].implied_yes_prob
                        IN  IF IsNa(x) THEN IsNa(y)
                            ELSE \/ IsNa(y)
                                 \/ x.v > y.v
                                 \/ x.v = y.v /\ FetchPos(markets[a]) < FetchPos(markets[b])

\* C19: every event's volume_24h is the sum of its members' volume_24h and
\* its open_interest the sum of its members' open_interest, a member's
\* missing value and a field no member has counting as 0: both aggregates
\* are numbers, never unknown.
C19_GroupAggregates ==
    Grouped =>
        \A g \in 1..Len(norm_out.events) :
            /\ norm_out.events[g].volume_24h =
                    Num(fillna_sum(norm_out.events[g].markets, "volume_24h"))
            /\ norm_out.events[g].open_interest =
                    Num(fillna_sum(norm_out.events[g].markets, "open_interest"))

\* the place of an event in the list the ranking was handed
PriorPos(e) == CHOOSE g \in 1..Len(norm_out.events) : norm_out.events[g] = e

\* C20: the ranked event list holds the events in non-increasing order of
\* aggregate volume_24h, events of equal aggregate in their prior relative
\* order.
C20_GroupRanking ==
    Grouped =>
        /\ Len(norm_out.events_sorted) = Len(norm_out.events)
        /\ \A g \in 1..Len(norm_out.events) :
                \E k \in 1..Len(norm_out.events_sorted) :
                    norm_out.events_sorted[k] = norm_out.events[g]
        /\ \A a, b \in 1..Len(norm_out.events_sorted) :
                a < b =>
                    LET x == norm_out.events_sorted[a]
                        y == norm_out.events_sorted[b]
                    IN  \/ x.volume_24h.v > y.volume_24h.v
                        \/ x.volume_24h.v = y.volume_24h.v /\ PriorPos(x) < PriorPos(y)

\* C20 witness: three rows, E2 (volume 2 + 2) ranked before E1 (volume 1)
\* though E1 came first.
C20_Witness ==
    /\ Grouped
    /\ Len(norm_out.events) = 2
    /\ norm_out.events[1].volume_24h = Num(1)
    /\ norm_out.events[2].volume_24h = Num(4)
    /\ norm_out.events_sorted = <<norm_out.events[2], norm_out.events[1]>>

(***************************************************************************)
(* oddsy_services/stats_service.py.  A frame argument is None or a frame,  *)
(* the sequence of its rows; a column the frame lacks is missing in every  *)
(* row.  Every number (price, count, size, volume, dollars) is held in     *)
(* hundredths: 40 cents is 4000, 0.40 dollars is 40, 2 contracts are 200.  *)
(* weekly_transactions and active_markets are plain integers.              *)
(***************************************************************************)
MaxStatRows == 2

NoFrame == [none |-> TRUE, rows |-> <<>>]
Frame(rows) == [none |-> FALSE, rows |-> rows]

\* df is None or df.empty
NoRows(df) == df.none \/ df.rows = <<>>

\* x.fillna(0), one cell
fillna0(x) == IF IsNa(x) THEN 0 ELSE x.v

\* a * b of two numbers in hundredths
Times(a, b) == (a * b) \div 100

\* int(x), x >= 0 in hundredths
int(x) == x \div 100

\* (df[a].fillna(0) * df[b].fillna(0)).sum()
RECURSIVE dot_sum(_, _, _)
dot_sum(rows, a, b) ==
    IF rows = <<>> THEN 0
    ELSE Times(fillna0(Head(rows)[a]), fillna0(Head(rows)[b])) + dot_sum(Tail(rows), a, b)

ExchangeStats(name, weekly_notional, active_markets, weekly_transactions, open_interest) ==
    [name |-> name,
     weekly_notional_volume |-> weekly_notional,
     active_markets |-> active_markets,
     weekly_transactions |-> weekly_transactions,
     open_interest |-> open_interest]

\* lines 69: if trades_df is not None and not trades_df.empty
TradesIgnored(trades_df) == FALSE
TradesSupplied(trades_df) == ~NoRows(trades_df)

\* lines 71-76 of compute_kalshi_stats
kalshi_weekly_transactions(trades) ==
    IF HasColumn(trades, "count") THEN int(fillna_sum(trades, "count")) ELSE Len(trades)

\* (price_cents / 100.0 * size).sum()
RECURSIVE cents_dot_sum(_)
cents_dot_sum(trades) ==
    IF trades = <<>> THEN 0
    ELSE Times(fillna0(Head(trades).price) \div 100, fillna0(Head(trades).count))
            + cents_dot_sum(Tail(trades))

\* lines 78-91: price is in cents
kalshi_weekly_notional(trades) ==
    IF HasColumn(trades, "price") /\ HasColumn(trades, "count")
    THEN cents_dot_sum(trades)
    ELSE IF HasColumn(trades, "yes_price_dollars") /\ HasColumn(trades, "count")
    THEN dot_sum(trades, "yes_price_dollars", "count")
    ELSE 0

WeeklyUnscaled(x) == x
\* lines 106-112, 203-212: a day's figure times 7
Weekly(x) == x * 7

\* lines 104-122: the approximation from the market records
kalshi_proxy(markets) ==
    IF HasColumn(markets, "volume_24h")
    THEN [weekly_transactions |-> int(Weekly(fillna_sum(markets, "volume_24h"))),
          weekly_notional |->
            IF HasColumn(markets, "last_price_dollars")
            THEN Weekly(dot_sum(markets, "volume_24h", "last_price_dollars"))
            ELSE Weekly(fillna_sum(markets, "volume_24h"))]
    ELSE IF HasColumn(markets, "volume")
    THEN [weekly_transactions |-> int(fillna_sum(markets, "volume")),
          weekly_notional |->
            IF HasColumn(markets, "last_price_dollars")
            THEN dot_sum(markets, "volume", "last_price_dollars")
            ELSE fillna_sum(markets, "volume")]
    ELSE [weekly_transactions |-> 0, weekly_notional |-> 0]

compute_kalshi_stats(markets_df, trades_df) ==
    IF NoRows(markets_df) THEN ExchangeStats("Kalshi", 0, 0, 0, 0)
    ELSE LET markets        == markets_df.rows
             active_markets == Len(markets)
             open_interest  == IF HasColumn(markets, "open_interest")
                               THEN fillna_sum(markets, "open_interest") ELSE 0
         IN  IF TradesSupplied(trades_df)
             THEN ExchangeStats("Kalshi", kalshi_weekly_notional(trades_df.rows),
                                active_markets,
                                kalshi_weekly_transactions(trades_df.rows), open_interest)
             ELSE ExchangeStats("Kalshi", kalshi_proxy(markets).weekly_notional,
                                active_markets,
                                kalshi_proxy(markets).weekly_transactions, open_interest)

\* display_df.groupby("event_ticker")["volume_24h"].max().sum(): the largest
\* known volume of every event, rows without event_ticker left out
max_per_event_sum(rows) ==
    LET keys == {rows[i].event_ticker : i \in {j \in 1..Len(rows) : ~IsNa(rows[j].event_ticker)}}
        vols(k) == {rows[i].volume_24h.v :
                        i \in {j \in 1..Len(rows) : rows[j].event_ticker = k
                                                    /\ ~IsNa(rows[j].volume_24h)}}
        max(S) == IF S = {} THEN 0 ELSE CHOOSE m \in S : \A x \in S : x <= m
        RECURSIVE total(_)
        total(K) == IF K = {} THEN 0
                    ELSE LET k == CHOOSE x \in K : TRUE
                         IN  max(vols(k)) + total(K \ {k})
    IN  total(keys)

\* lines 156-163
pm_active_markets(gamma_df, display_df) ==
    IF ~NoRows(gamma_df) THEN Len(gamma_df.rows)
    ELSE IF ~display_df.none /\ HasColumn(display_df.rows, "event_ticker")
    THEN \* display_df["event_ticker"].nunique()
         LET rows == display_df.rows
         IN  Cardinality({rows[i].event_ticker :
                            i \in {j \in 1..Len(rows) : ~IsNa(rows[j].event_ticker)}})
    ELSE IF display_df.none THEN 0 ELSE Len(display_df.rows)

\* lines 165-174
pm_open_interest(oi_df) ==
    IF ~NoRows(oi_df) /\ HasColumn(oi_df.rows, "market") /\ HasColumn(oi_df.rows, "value")
    THEN LET global_row == SelectSeq(oi_df.rows, LAMBDA r : r.market = Text(<<"GLOBAL">>))
         IN  IF global_row # <<>> THEN fillna0(global_row[1].value)
             ELSE fillna_sum(oi_df.rows, "value")
    ELSE 0

\* lines 183-188
pm_weekly_notional(trades) ==
    IF HasColumn(trades, "price") /\ HasColumn(trades, "size")
    THEN dot_sum(trades, "price", "size") ELSE 0

\* lines 198-212
pm_proxy_notional(gamma_df, display_df) ==
    IF ~NoRows(gamma_df)
    THEN IF HasColumn(gamma_df.rows, "volume24hrClob")
         THEN Weekly(fillna_sum(gamma_df.rows, "volume24hrClob"))
         ELSE IF HasColumn(gamma_df.rows, "volume24hr")
         THEN Weekly(fillna_sum(gamma_df.rows, "volume24hr"))
         ELSE 0
    ELSE IF ~NoRows(display_df) /\ HasColumn(display_df.rows, "volume_24h")
    THEN IF HasColumn(display_df.rows, "event_ticker")
         THEN Weekly(max_per_event_sum(display_df.rows))
         ELSE Weekly(fillna_sum(display_df.rows, "volume_24h"))
    ELSE 0

compute_polymarket_stats(gamma_df, display_df, trades_df, oi_df) ==
    IF NoRows(gamma_df) /\ NoRows(display_df) THEN ExchangeStats("Polymarket", 0, 0, 0, 0)
    ELSE IF TradesSupplied(trades_df)
    THEN ExchangeStats("Polymarket", pm_weekly_notional(trades_df.rows),
                       pm_active_markets(gamma_df, display_df),
                       Len(trades_df.rows), pm_open_interest(oi_df))
    ELSE ExchangeStats("Polymarket", pm_proxy_notional(gamma_df, display_df),
                       pm_active_markets(gamma_df, display_df), 0, pm_open_interest(oi_df))

\* polymarket: Optional[ExchangeStats] = None
NoStats == [null |-> TRUE]

get_top_level_stats(kalshi_markets_df, kalshi_trades_df, polymarket_gamma_df, polymarket_display_df, polymarket_trades_df, polymarket_oi_df) ==
    [kalshi |-> compute_kalshi_stats(kalshi_markets_df, kalshi_trades_df),
     polymarket |->
        IF ~NoRows(polymarket_gamma_df) \/ ~NoRows(polymarket_display_df)
        THEN compute_polymarket_stats(polymarket_gamma_df, polymarket_display_df,
                                      polymarket_trades_df, polymarket_oi_df)
        ELSE NoStats]

\* Frames of at most MaxStatRows rows drawn from the cells of one column layout.
FramesOf(Cells) == UNION {{Frame(f) : f \in [1..n -> Cells]} : n \in 1..MaxStatRows}

\* Kalshi market records: volume_24h with or without last_price_dollars, the
\* lifetime volume alone, or none of the volume columns.
KalshiMarketFrames ==
    LET Layouts ==
        {[volume_24h : {PyNaN, Num(50), Num(200)}, last_price_dollars : {PyNaN, Num(40)},
          volume : {Num(900)}, open_interest : {Num(300)}],
         [volume_24h : {PyNaN, Num(50), Num(200)}, last_price_dollars : {Missing},
          volume : {Missing}, open_interest : {Missing}],
         [volume_24h : {Missing}, last_price_dollars : {Num(40)},
          volume : {PyNaN, Num(250)}, open_interest : {PyNaN, Num(300)}],
         [volume_24h : {Missing}, last_price_dollars : {Missing},
          volume : {PyNaN, Num(250)}, open_interest : {Missing}],
         [volume_24h : {Missing}, last_price_dollars : {Missing},
          volume : {Missing}, open_interest : {Num(300)}]}
    IN  {NoFrame, Frame(<<>>)} \cup UNION {FramesOf(Cells) : Cells \in Layouts}

\* Kalshi trades: price in cents and count, a *_price_dollars column and
\* count, a price without count, or neither.
KalshiTradeFrames ==
    LET Layouts ==
        {[count : {PyNaN, Num(200), Num(300)}, price : {PyNaN, Num(4000)},
          yes_price_dollars : {Num(40)}],
         [count : {Num(200), Num(300)}, price : {Missing}, yes_price_dollars : {Num(60)}],
         [count : {Missing}, price : {Num(4000)}, yes_price_dollars : {Missing}],
         [count : {Missing}, price : {Missing}, yes_price_dollars : {Missing}]}
    IN  {NoFrame, Frame(<<>>)} \cup UNION {FramesOf(Cells) : Cells \in Layouts}

\* Gamma market records
GammaFrames ==
    LET Layouts ==
        {[volume24hrClob : {PyNaN, Num(300)}, volume24hr : {Num(500)}],
         [volume24hrClob : {Missing}, volume24hr : {PyNaN, Num(500)}],
         [volume24hrClob : {Missing}, volume24hr : {Missing}]}
    IN  {NoFrame, Frame(<<>>)} \cup UNION {FramesOf(Cells) : Cells \in Layouts}

\* the display frame: one row per outcome, the event's volume on each
DisplayFrames ==
    LET Layouts ==
        {{[event_ticker |-> Text(<<"E1">>), volume_24h |-> Num(100)],
          [event_ticker |-> Text(<<"E1">>), volume_24h |-> Num(200)],
          [event_ticker |-> Text(<<"E2">>), volume_24h |-> Num(100)],
          [event_ticker |-> Text(<<"E1">>), volume_24h |-> PyNaN],
          [event_ticker |-> NoText("NaN"), volume_24h |-> Num(200)]},
         [event_ticker : {NoText("missing")}, volume_24h : {PyNaN, Num(100)}],
         [event_ticker : {Text(<<"E1">>), Text(<<"E2">>)}, volume_24h : {Missing}]}
    IN  {NoFrame, Frame(<<>>)} \cup UNION {FramesOf(Cells) : Cells \in Layouts}

\* Polymarket trades: price in dollars and size, or a price without size
PolymarketTradeFrames ==
    LET Layouts ==
        {[price : {Num(50)}, size : {PyNaN, Num(200), Num(300)}],
         [price : {Num(50)}, size : {Missing}]}
    IN  {NoFrame, Frame(<<>>)} \cup UNION {FramesOf(Cells) : Cells \in Layouts}

\* open interest: with a GLOBAL row, per market only, or without the columns
OiFrames ==
    {NoFrame,
     Frame(<<[market |-> Text(<<"M1">>), value |-> Num(300)],
             [market |-> Text(<<"GLOBAL">>), value |-> Num(700)]>>),
     Frame(<<[market |-> Text(<<"M1">>), value |-> Num(300)],
             [market |-> Text(<<"M2">>), value |-> PyNaN]>>),
     Frame(<<[market |-> NoText("missing"), value |-> Num(300)]>>)}

\* one frame of every kind, for the calls of the page
PageFrames ==
    [kalshi_markets_df |->
        Frame(<<[volume_24h |-> Num(200), last_price_dollars |-> Num(40),
                 volume |-> Num(900), open_interest |-> Num(300)]>>),
     kalshi_trades_df |->
        Frame(<<[count |-> Num(300), price |-> Num(4000), yes_price_dollars |-> Num(40)]>>),
     pm_gamma_df |-> Frame(<<[volume24hrClob |-> Num(300), volume24hr |-> Num(500)]>>),
     df_display |-> Frame(<<[event_ticker |-> Text(<<"E1">>), volume_24h |-> Num(100)]>>),
     pm_trades_df |-> Frame(<<[price |-> Num(50), size |-> Num(200)]>>)]

InitStats ==
    /\ FetchIdle
    /\ RefreshIdle
    /\ BooksIdle
    /\ \/ \E markets_df \in KalshiMarketFrames :
            \E trades_df \in KalshiTradeFrames :
                norm_in = [kind |-> "kalshi_stats", markets_df |-> markets_df,
                           trades_df |-> trades_df]
       \/ \E shown \in {<<g, d>> : g \in GammaFrames, d \in {NoFrame, PageFrames.df_display}}
                        \cup {<<g, d>> : g \in {NoFrame, Frame(<<>>)}, d \in DisplayFrames} :
            \E trades_df \in PolymarketTradeFrames :
                \E oi_df \in OiFrames :
                    norm_in = [kind |-> "polymarket_stats", gamma_df |-> shown[1],
                               display_df |-> shown[2], trades_df |-> trades_df,
                               oi_df |-> oi_df]
       \/ \E kalshi_markets_df \in {NoFrame, Frame(<<>>), PageFrames.kalshi_markets_df} :
            \E kalshi_trades_df \in {NoFrame, PageFrames.kalshi_trades_df} :
                \E polymarket_gamma_df \in {NoFrame, PageFrames.pm_gamma_df} :
                    \E polymarket_display_df \in {NoFrame, PageFrames.df_display} :
                        \E polymarket_trades_df \in {NoFrame, PageFrames.pm_trades_df} :
                            \E polymarket_oi_df \in OiFrames :
                                norm_in = [kind |-> "top_level_stats",
                                           kalshi_markets_df |-> kalshi_markets_df,
                                           kalshi_trades_df |-> kalshi_trades_df,
                                           polymarket_gamma_df |-> polymarket_gamma_df,
                                           polymarket_display_df |-> polymarket_display_df,
                                           polymarket_trades_df |-> polymarket_trades_df,
                                           polymarket_oi_df |-> polymarket_oi_df]
    /\ norm_op = "input"
    /\ norm_out = NoneV

ApplyKalshiStats ==
    /\ norm_op = "input"
    /\ norm_in.kind = "kalshi_stats"
    /\ norm_out' = compute_kalshi_stats(norm_in.markets_df, norm_in.trades_df)
    /\ norm_op' = "compute_kalshi_stats"
    /\ UNCHANGED <<norm_in, fetchVars, refreshVars, booksVars>>

ApplyPolymarketStats ==
    /\ norm_op = "input"
    /\ norm_in.kind = "polymarket_stats"
    /\ norm_out' = compute_polymarket_stats(norm_in.gamma_df, norm_in.display_df,
                                            norm_in.trades_df, norm_in.oi_df)
    /\ norm_op' = "compute_polymarket_stats"
    /\ UNCHANGED <<norm_in, fetchVars, refreshVars, booksVars>>

ApplyTopLevelStats ==
    /\ norm_op = "input"
    /\ norm_in.kind = "top_level_stats"
    /\ norm_out' = get_top_level_stats(norm_in.kalshi_markets_df, norm_in.kalshi_trades_df,
                                       norm_in.polymarket_gamma_df,
                                       norm_in.polymarket_display_df,
                                       norm_in.polymarket_trades_df, norm_in.polymarket_oi_df)
    /\ norm_op' = "get_top_level_stats"
    /\ UNCHANGED <<norm_in, fetchVars, refreshVars, booksVars>>

NextStats ==
    \/ ApplyKalshiStats
    \/ ApplyPolymarketStats
    \/ ApplyTopLevelStats

SpecStats == InitStats /\ [][NextStats]_vars

\* What the statistics were computed from, and the sum of a list of numbers.
KalshiStatsDone == norm_op = "compute_kalshi_stats"
PolymarketStatsDone == norm_op = "compute_polymarket_stats"
TopLevelStatsDone == norm_op = "get_top_level_stats"
RECURSIVE SeqSum(_)
SeqSum(s) == IF s = <<>> THEN 0 ELSE Head(s) + SeqSum(Tail(s))
Known(x) == IF IsNa(x) THEN 0 ELSE x.v

\* price x size of every trade: Kalshi's price is in cents, Polymarket's in dollars
KalshiTradeNotional(trades) ==
    SeqSum([i \in 1..Len(trades) |->
                ((Known(trades[i].price) \div 100) * Known(trades[i].count)) \div 100])
PolymarketTradeNotional(trades) ==
    SeqSum([i \in 1..Len(trades) |->
                (Known(trades[i].price) * Known(trades[i].size)) \div 100])

\* market records of one exchange that carry no volume field at all
KalshiNoVolumeMarkets ==
    Frame(<<[volume_24h |-> Missing, last_price_dollars |-> Missing,
             volume |-> Missing, open_interest |-> Missing]>>)
GammaNoVolume == Frame(<<[volume24hrClob |-> Missing, volume24hr |-> Missing]>>)

\* C21: with markets present and a non-empty trades table,
\* weekly_notional_volume is the sum over the trades of price x size (Kalshi:
\* price in cents / 100 x count; Polymarket: price x size); it is what the
\* trades alone give, the same as with market records that carry no volume
\* field, so never the 24h-volume x 7 proxy.
C21_TradesTakePrecedence ==
    /\ KalshiStatsDone /\ ~NoRows(norm_in.markets_df) /\ ~NoRows(norm_in.trades_df)
        => /\ norm_out.weekly_notional_volume
                = compute_kalshi_stats(KalshiNoVolumeMarkets,
                                       norm_in.trades_df).weekly_notional_volume
           /\ HasColumn(norm_in.trades_df.rows, "price")
                /\ HasColumn(norm_in.trades_df.rows, "count")
                => norm_out.weekly_notional_volume
                        = KalshiTradeNotional(norm_in.trades_df.rows)
    /\ PolymarketStatsDone /\ ~NoRows(norm_in.trades_df)
        /\ (~NoRows(norm_in.gamma_df) \/ ~NoRows(norm_in.display_df))
        => /\ norm_out.weekly_notional_volume
                = compute_polymarket_stats(GammaNoVolume, NoFrame, norm_in.trades_df,
                                           NoFrame).weekly_notional_volume
           /\ HasColumn(norm_in.trades_df.rows, "price")
                /\ HasColumn(norm_in.trades_df.rows, "size")
                => norm_out.weekly_notional_volume
                        = PolymarketTradeNotional(norm_in.trades_df.rows)

\* Kalshi market records with a 24h volume and a last price (proxy 5.60) and
\* one trade of 3 contracts at 40 cents: the notional is 1.20.
C21_Witness ==
    /\ KalshiStatsDone
    /\ norm_in.markets_df = PageFrames.kalshi_markets_df
    /\ norm_in.trades_df = PageFrames.kalshi_trades_df
    /\ kalshi_proxy(norm_in.markets_df.rows).weekly_notional = 560
    /\ norm_out.weekly_notional_volume = 120

\* the contracts or units of every trade, whole units
UnitCount(trades, col) == SeqSum([i \in 1..Len(trades) |-> Known(trades[i][col])]) \div 100

\* C22: with trades present, weekly_transactions is the total unit count of
\* the trades when the trades carry one (Kalshi count, Polymarket size), and
\* the number of trade rows only when they carry none.
C22_TransactionCountFromTrades ==
    /\ KalshiStatsDone /\ ~NoRows(norm_in.markets_df) /\ ~NoRows(norm_in.trades_df)
        => norm_out.weekly_transactions
            = IF HasColumn(norm_in.trades_df.rows, "count")
              THEN UnitCount(norm_in.trades_df.rows, "count")
              ELSE Len(norm_in.trades_df.rows)
    /\ PolymarketStatsDone /\ ~NoRows(norm_in.trades_df)
        /\ (~NoRows(norm_in.gamma_df) \/ ~NoRows(norm_in.display_df))
        => norm_out.weekly_transactions
            = IF HasColumn(norm_in.trades_df.rows, "size")
              THEN UnitCount(norm_in.trades_df.rows, "size")
              ELSE Len(norm_in.trades_df.rows)

\* the 24h volumes of the market records, and the 24h-volume column of the
\* Gamma records
Volumes24h(rows, col) == [i \in 1..Len(rows) |-> Known(rows[i][col])]
GammaVolumeColumn(rows) ==
    IF HasColumn(rows, "volume24hrClob") THEN "volume24hrClob" ELSE "volume24hr"

\* C23: with the trades table absent or empty and market records that carry
\* a 24h volume, Kalshi's weekly_transactions is floor(7 x sum of volume_24h)
\* and its weekly_notional_volume is 7 x sum of volume_24h x
\* last_price_dollars when the records have a last price, else 7 x sum of
\* volume_24h; Polymarket's weekly_notional_volume is 7 x sum of the 24h volume.
C23_ProxyFallback ==
    /\ KalshiStatsDone /\ ~NoRows(norm_in.markets_df) /\ NoRows(norm_in.trades_df)
        /\ HasColumn(norm_in.markets_df.rows, "volume_24h")
        => LET markets == norm_in.markets_df.rows
           IN  /\ norm_out.weekly_transactions
                    = (7 * SeqSum(Volumes24h(markets, "volume_24h"))) \div 100
               /\ norm_out.weekly_notional_volume
                    = IF HasColumn(markets, "last_price_dollars")
                      THEN 7 * SeqSum([i \in 1..Len(markets) |->
                                (Known(markets[i].volume_24h)
                                    * Known(markets[i].last_price_dollars)) \div 100])
                      ELSE 7 * SeqSum(Volumes24h(markets, "volume_24h"))
    /\ PolymarketStatsDone /\ ~NoRows(norm_in.gamma_df) /\ NoRows(norm_in.trades_df)
        /\ (HasColumn(norm_in.gamma_df.rows, "volume24hrClob")
                \/ HasColumn(norm_in.gamma_df.rows, "volume24hr"))
        => norm_out.weekly_notional_volume
            = 7 * SeqSum(Volumes24h(norm_in.gamma_df.rows,
                                    GammaVolumeColumn(norm_in.gamma_df.rows)))

\* no trades, one market with a 24h volume of 0.5 and a last price of 0.40:
\* 3 transactions (7 x 0.5 rounded down) and a notional of 1.40
C23_Witness ==
    /\ KalshiStatsDone
    /\ norm_in.trades_df = NoFrame
    /\ Len(norm_in.markets_df.rows) = 1
    /\ norm_in.markets_df.rows[1].volume_24h = Num(50)
    /\ norm_in.markets_df.rows[1].last_price_dollars = Num(40)
    /\ norm_out.weekly_transactions = 3
    /\ norm_out.weekly_notional_volume = 140

\* C24: in the combined statistics an exchange none of whose inputs was
\* given has a null field, Kalshi as well as Polymarket, never an
\* ExchangeStats of all zeros.
C24_AbsentExchangeIsNull ==
    TopLevelStatsDone =>
        /\ norm_in.kalshi_markets_df.none /\ norm_in.kalshi_trades_df.none
            => norm_out.kalshi = NoStats
        /\ norm_in.polymarket_gamma_df.none /\ norm_in.polymarket_display_df.none
            /\ norm_in.polymarket_trades_df.none /\ norm_in.polymarket_oi_df.none
            => norm_out.polymarket = NoStats

\* The keys of each exchange, and the platforms a choice selects.
KalshiKeys == {"kalshi_markets_df", "kalshi_trades_df"}
PolymarketKeys == {"pm_gamma_df", "pm_books_by_token", "pm_trades_df", "pm_oi_df"}
Selected(choice) ==
    {pf \in {"Kalshi", "Polymarket"} :
        \/ pf = "Kalshi" /\ choice \in {"Kalshi", "Both"}
        \/ pf = "Polymarket" /\ choice \in {"Polymarket", "Both"}}

\* C25: after a Refresh that ran to its end with choice P every key of the
\* snapshot was written by that Refresh, nothing of an earlier Refresh
\* survives, the keys of an exchange P does not select are None, and the
\* rows of df_display are of platforms P selects only.
C25_RefreshReplacesState ==
    refresh_no >= 1 /\ last_refresh.fail = NoneV =>
        /\ \A k \in SessionKeys : session_state[k].by = refresh_no
        /\ "Kalshi" \notin Selected(last_refresh.choice)
            => \A k \in KalshiKeys : session_state[k].val = NoneV
        /\ "Polymarket" \notin Selected(last_refresh.choice)
            => \A k \in PolymarketKeys : session_state[k].val = NoneV
        /\ session_state["df_display"].val \subseteq Selected(last_refresh.choice)

\* a second Refresh, Polymarket only, that ran to its end: the Kalshi keys
\* are None and df_display holds Polymarket rows only
C25_Witness ==
    /\ refresh_no = 2
    /\ last_refresh = [choice |-> "Polymarket", fail |-> NoneV]
    /\ \A k \in KalshiKeys : session_state[k] = [by |-> 2, val |-> NoneV]
    /\ session_state["pm_gamma_df"] = [by |-> 2, val |-> "fetched"]
    /\ session_state["df_display"] = [by |-> 2, val |-> {"Polymarket"}]

(***************************************************************************)
(* oddsy_services/polymarket_client.py, fetch_clob_books: one iteration of *)
(* "for i in range(0, len(token_ids), chunk_size)" per step; offset is the *)
(* loop variable i.  A token id is a string or an integer, held as its     *)
(* kind and its decimal text; the keys of out are the texts.               *)
(***************************************************************************)
\* Longest token_ids list and largest chunk_size tried.
MaxTokens == 3
MaxChunkSize == 2

Tok(t, v) == [t |-> t, v |-> v]
TokenIds == {Tok("str", "1"), Tok("str", "2"), Tok("int", "1")}

\* str(t)
str(x) == Tok("str", x.v)

\* x or y
TokOr(x, y) == IF x.t = "None" \/ x.v = "" \/ (x.t = "int" /\ x.v = "0") THEN y ELSE x

chunk_with_one_more(ids, i, size) ==
    SubSeq(ids, i + 1, IF i + size + 1 <= Len(ids) THEN i + size + 1 ELSE Len(ids))
\* token_ids[i : i + chunk_size]
chunk_of(ids, i, size) ==
    SubSeq(ids, i + 1, IF i + size <= Len(ids) THEN i + size ELSE Len(ids))

\* [{"token_id": str(t)} for t in chunk]
payload_of(chunk) == [j \in 1..Len(chunk) |-> [token_id |-> str(chunk[j])]]

\* A book summary: the ids it carries and its content, which differs from one
\* request to the next.
Book(token_id, asset_id, content) ==
    [token_id |-> token_id, asset_id |-> asset_id, content |-> content]

\* What POST /books may answer to the payload of request number req: an error
\* status (or a body that is no JSON); something that is neither a list nor
\* an object; a list of books keyed by token_id, by asset_id, with a first
\* book that has no id, or holding one book of token "1" whatever was asked;
\* an object keyed by token id.
BooksResponses(payload, req) ==
    {[kind |-> "error"], [kind |-> "other"],
     [kind |-> "list",
      books |-> [j \in 1..Len(payload) |-> Book(payload[j].token_id, Tok("None", ""), req)]],
     [kind |-> "list",
      books |-> [j \in 1..Len(payload) |-> Book(Tok("None", ""), payload[j].token_id, req)]],
     [kind |-> "list",
      books |-> [j \in 1..Len(payload) |->
                    Book(IF j = 1 THEN Tok("str", "") ELSE payload[j].token_id, Tok("None", ""), req)]],
     [kind |-> "list", books |-> <<Book(Tok("int", "1"), Tok("str", "2"), req)>>],
     [kind |-> "dict",
      books |-> [k \in {payload[j].token_id.v : j \in 1..Len(payload)} |->
                    Book(Tok("str", k), Tok("None", ""), req)]]}

\* lines 101-105: for b in books: ...
RECURSIVE update_from_list(_, _)
update_from_list(d, books) ==
    IF books = <<>> THEN d
    ELSE LET b   == Head(books)
             tid == str(TokOr(b.token_id, TokOr(b.asset_id, Tok("str", "")))).v
             \* out[tid] = b
             set == [x \in DOMAIN d \cup {tid} |-> IF x = tid THEN b ELSE d[x]]
         IN  update_from_list(IF tid # "" THEN set ELSE d, Tail(books))

\* out.update(books)
update(d, books) ==
    [x \in DOMAIN d \cup DOMAIN books |-> IF x \in DOMAIN books THEN books[x] ELSE d[x]]

InitBooks ==
    /\ RefreshIdle
    /\ NormIdle
    /\ fetcher = "fetch_clob_books"
    /\ max_pages = 0
    /\ pc = "loop"
    /\ pages_fetched = 0
    /\ offset = 0
    /\ cursor = NoneV
    /\ all_rows = <<>>
    /\ served = <<>>
    /\ \E n \in 0..MaxTokens : books_token_ids \in [1..n -> TokenIds]
    /\ books_chunk_size \in 1..MaxChunkSize
    /\ books_out = <<>>    \* out = {}

ClobBooksStep ==
    /\ fetcher = "fetch_clob_books"
    /\ pc = "loop"
    /\ UNCHANGED <<fetcher, max_pages, pages_fetched, cursor, all_rows>>
    /\ UNCHANGED <<books_token_ids, books_chunk_size>>
    /\ IF offset >= Len(books_token_ids)
       THEN \* the range is exhausted: return out
            /\ pc' = "done"
            /\ UNCHANGED <<offset, served, books_out>>
       ELSE LET payload == payload_of(chunk_of(books_token_ids, offset, books_chunk_size))
            IN  \E resp \in BooksResponses(payload, Len(served) + 1) :
                    /\ served' = Append(served, [query |-> payload, resp |-> resp])
                    /\ IF resp.kind = "error"
                       THEN \* RuntimeError, or whatever _post raised
                            /\ pc' = "raised"
                            /\ UNCHANGED <<offset, books_out>>
                       ELSE /\ books_out' =
                                IF resp.kind = "list"
                                THEN update_from_list(books_out, resp.books)
                                ELSE IF resp.kind = "dict"
                                THEN update(books_out, resp.books)
                                ELSE books_out
                            /\ offset' = offset + books_chunk_size
                            /\ pc' = "loop"

NextBooks == ClobBooksStep /\ UNCHANGED <<refreshVars, normVars>>

SpecBooks == InitBooks /\ [][NextBooks]_vars

\* The requests of the call so far, and the ids of all of them in order.
BooksCall == fetcher = "fetch_clob_books"
Returned == pc = "done"
RECURSIVE IdsSent(_)
IdsSent(hist) ==
    IF hist = <<>> THEN <<>>
    ELSE IdsSent(SubSeq(hist, 1, Len(hist) - 1))
            \o [j \in 1..Len(hist[Len(hist)].query) |-> hist[Len(hist)].query[j].token_id]

\* the token id a book of a list answer is filed under, "" for none
KeyOf(b) ==
    IF b.token_id.t # "None" /\ b.token_id.v \notin {"", "0"} THEN b.token_id.v
    ELSE IF b.asset_id.t # "None" /\ b.asset_id.v \notin {"", "0"} THEN b.asset_id.v
    ELSE ""

\* the result of one request, keyed by token id: within a list the last book
\* of a token stands
ResultOf(resp) ==
    IF resp.kind = "dict" THEN resp.books
    ELSE IF resp.kind = "list"
    THEN [k \in {KeyOf(resp.books[j]) : j \in 1..Len(resp.books)} \ {""} |->
            LET last == CHOOSE j \in 1..Len(resp.books) :
                            /\ KeyOf(resp.books[j]) = k
                            /\ \A j2 \in 1..Len(resp.books) :
                                KeyOf(resp.books[j2]) = k => j2 <= j
            IN  resp.books[last]]
    ELSE <<>>

\* C26: fetch_clob_books posts the token ids in chunks: request r carries ids
\* (r-1)*chunk_size+1 .. r*chunk_size of the list, as strings, in list order
\* and at most chunk_size of them; when the call returns it has made
\* ceil(n / chunk_size) requests, every position of the list was sent in
\* exactly one of them, and the map returned is the union of the results of
\* the requests keyed by token id (the later request standing for a token
\* answered twice).
C26_OrderBookBatching ==
    BooksCall =>
        LET n == Len(books_token_ids)
            c == books_chunk_size
        IN  /\ \A r \in 1..Len(served) :
                /\ Len(served[r].query) <= c
                /\ Len(served[r].query) >= 1
                /\ \A j \in 1..Len(served[r].query) :
                    /\ (r - 1) * c + j <= n
                    /\ served[r].query[j].token_id.t = "str"
                    /\ served[r].query[j].token_id.v = books_token_ids[(r - 1) * c + j].v
            /\ Returned =>
                /\ Len(served) * c >= n
                /\ (Len(served) - 1) * c < n \/ Len(served) = 0
                /\ Len(served) = (n + c - 1) \div c
                /\ Len(IdsSent(served)) = n
                /\ \A q \in 1..n : IdsSent(served)[q].v = books_token_ids[q].v
                /\ DOMAIN books_out = UNION {DOMAIN ResultOf(served[r].resp) : r \in 1..Len(served)}
                /\ \A k \in DOMAIN books_out :
                    \E r \in 1..Len(served) :
                        /\ k \in DOMAIN ResultOf(served[r].resp)
                        /\ books_out[k] = ResultOf(served[r].resp)[k]
                        /\ \A r2 \in 1..Len(served) :
                            k \in DOMAIN ResultOf(served[r2].resp) => r2 <= r

\* three token ids, one of them an integer, in chunks of two: two requests,
\* <<"1", "2">> then <<"1">>, and the book of token "1" is that of the second
C26_Witness ==
    /\ BooksCall
    /\ Returned
    /\ books_token_ids = <<Tok("str", "1"), Tok("str", "2"), Tok("int", "1")>>
    /\ books_chunk_size = 2
    /\ Len(served) = 2
    /\ served[1].query = <<[token_id |-> Tok("str", "1")], [token_id |-> Tok("str", "2")]>>
    /\ served[2].query = <<[token_id |-> Tok("str", "1")]>>
    /\ DOMAIN books_out = {"1", "2"}
    /\ books_out["1"].content = 2
    /\ books_out["2"].content = 1

====
